---- MODULE Spec2Model ----
(***************************************************************************)
(* err-stash: merge of the pull requests of one branch across the          *)
(* repositories of a hierarchical provider (Stash: project -> slug) and a  *)
(* flat provider (GitHub: organization -> name), src/err_stash.py.         *)
(*                                                                         *)
(* A run of merge() is a state machine: discovery (create_plans, with the  *)
(* concurrent flat branch lookups), the validation stages in the order of  *)
(* the body of merge(), the merge loop, the 'no changes' lines, the delete *)
(* loop and the summary.  Names are sequences of tokens, so that substring *)
(* matching, the `refs/heads/` prefix and its removal are computed.        *)
(***************************************************************************)
EXTENDS Integers, Sequences, FiniteSets, TLC

VARIABLES
    stash,                  \* hierarchical provider: one record per repository
    github,                 \* flat provider: one record per repository
    command,                \* the entry point running: merge() or the branch deletion
    bot,                    \* the top-level caller, its configuration, the actor's
                            \* settings and what it has answered
    stash_projects,         \* merge(stash_projects=...)
    branches_to_delete,     \* obtain_branches_to_delete(branches_to_delete=...)
    branches_fetched,       \* what GithubAPI.fetch_branches returned
    branch_text,            \* merge(branch_text=...)
    confirm,                \* merge(confirm=...)
    force,                  \* merge(force=...)
    github_organizations,   \* merge(github_organizations=...)
    user_settings,          \* StashBot: the settings stored under "user:<nick>"
    requests,               \* StashBot: the delete-branch requests being served
    pc,                     \* position in merge()
    plans,                  \* create_plans: plans
    has_prs,                \* create_plans: has_prs
    github_branch_text,     \* create_plans: github_branch_text
    futures,                \* create_plans: futures (in submission order)
    org_pos,                \* create_plans: position in organization_to_repos.keys()
    collected,              \* futures already yielded by the current as_completed
    from_branch,            \* merge: from_branch
    plans_and_commits,      \* merge: plans_and_commits, as <<plan index, count>>
    idx,                    \* position of the merge loop / delete loop
    shown,                  \* merge: shown
    lines,                  \* the lines the generator has yielded
    raised,                 \* the exception that ended the run, if any
    calls                   \* provider calls issued so far, in order

vars == <<stash, github, command, bot, stash_projects, branches_to_delete,
          branches_fetched, branch_text, confirm, force, github_organizations,
          user_settings, requests, pc,
          plans, has_prs, github_branch_text, futures, org_pos, collected,
          from_branch, plans_and_commits, idx, shown, lines, raised, calls>>

(***************************************************************************)
(* Bounds and program constants                                            *)
(***************************************************************************)
MaxCommits == 1

MaxWorkers == 16

(***************************************************************************)
(* Names                                                                   *)
(***************************************************************************)
RH == "refs/heads/"
A == <<"a">>
AB == <<"a", "b">>
M == <<"master">>
D == <<"d">>
DX == <<"d", "x">>
X == <<"x">>
None == <<>>

\* The answer of a commit diff: a list of n commits, or NotFoundException.
Commits(n) == [status |-> "ok", n |-> n]
NotFound == [status |-> "NotFound", n |-> 0]

\* "refs/heads/{}".format(name)
RefsHeads(name) == <<RH>> \o name

\* s.replace("refs/heads/", "")
StripRefsHeads(s) == SelectSeq(s, LAMBDA t : t # RH)

\* sub in s
IsSubstring(sub, s) ==
    \E k \in 0..(Len(s) - Len(sub)) : SubSeq(s, k + 1, k + Len(sub)) = sub

Range(s) == {s[k] : k \in DOMAIN s}

\* [f(x) for x in s]
RECURSIVE Flatten(_)
Flatten(ss) == IF ss = <<>> THEN <<>> ELSE Head(ss) \o Flatten(Tail(ss))

(***************************************************************************)
(* The repositories of the two providers and the inputs of merge()         *)
(***************************************************************************)
StashProjects == <<"PA", "PB">>

StashRepos == << [project |-> "PA", slug |-> "r1"],
                 [project |-> "PB", slug |-> "r1"] >>

\* The flat repositories of a merge(): two of one organization and one, of
\* the same name as the first, of another.
GithubDirectory == << [org |-> "OA", name |-> "r1"],
                     [org |-> "OA", name |-> "r2"],
                     [org |-> "OB", name |-> "r1"] >>

\* GithubAPI.url and the url given to StashAPI
GithubUrl == <<"https://", "github.com">>
StashUrl == <<"https://", "myserver.com", "/stash">>

Counts == 1..MaxCommits

SP(b, p, d, c, h) ==
    [branches |-> b, prs |-> p, diff |-> d, can_merge |-> c, has_d |-> h]

\* What a repository can hold: its branches matching "a", the targets of its
\* open pull requests from the first of them, the answer of its commit diff,
\* the mergeability of its pull requests, and whether a branch `d` exists
\* besides `master`.  The first hierarchical repository:
StashProfilesFirst ==
    {SP(<<>>, <<>>, Commits(0), TRUE, FALSE)}
    \cup {SP(<<A, AB>>, p, Commits(0), TRUE, FALSE) : p \in {<<>>, <<M>>}}
    \cup {SP(<<A>>, <<M, D>>, Commits(0), TRUE, FALSE)}
    \cup {SP(<<A>>, <<>>, d, TRUE, FALSE) : d \in {NotFound, Commits(0)}}
    \cup {SP(<<A>>, <<>>, Commits(n), TRUE, h) : n \in Counts, h \in BOOLEAN}
    \cup {SP(<<A>>, <<M>>, d, TRUE, FALSE) : d \in {NotFound, Commits(0)}}
    \cup {SP(<<A>>, <<M>>, Commits(n), TRUE, FALSE) : n \in Counts}
    \cup {SP(<<A>>, <<M>>, Commits(1), FALSE, FALSE)}
    \cup {SP(<<A>>, <<D>>, Commits(1), TRUE, FALSE)}
    \cup {SP(<<AB>>, <<M>>, Commits(1), TRUE, FALSE)}
    \cup {SP(<<AB>>, <<>>, Commits(0), TRUE, FALSE)}

\* The second hierarchical repository (same slug, another project):
StashProfilesSecond ==
    {SP(<<>>, <<>>, Commits(0), TRUE, FALSE)}
    \cup {SP(<<A, AB>>, <<M>>, Commits(0), TRUE, FALSE)}
    \cup {SP(<<A>>, <<M, D>>, Commits(0), TRUE, FALSE)}
    \cup {SP(<<A>>, <<>>, d, TRUE, FALSE) : d \in {NotFound, Commits(0)}}
    \cup {SP(<<A>>, <<>>, Commits(1), TRUE, h) : h \in BOOLEAN}
    \cup {SP(<<A>>, <<M>>, Commits(n), TRUE, FALSE) : n \in Counts}
    \cup {SP(<<A>>, <<M>>, Commits(1), FALSE, FALSE)}
    \cup {SP(<<A>>, <<D>>, Commits(1), TRUE, FALSE)}
    \cup {SP(<<AB>>, <<>>, Commits(1), TRUE, FALSE)}

\* The first flat repository:
GithubProfilesFirst ==
    {SP(<<>>, <<>>, Commits(0), TRUE, FALSE)}
    \cup {SP(<<A>>, <<>>, Commits(n), TRUE, FALSE) : n \in {0} \cup Counts}
    \cup {SP(<<A>>, <<M>>, Commits(1), c, FALSE) : c \in BOOLEAN}
    \cup {SP(<<A>>, <<D>>, Commits(1), TRUE, FALSE)}

\* The second flat repository (same organization):
GithubProfilesSecond ==
    {SP(<<>>, <<>>, Commits(0), TRUE, FALSE),
     SP(<<A>>, <<M>>, Commits(1), TRUE, FALSE),
     SP(<<A>>, <<D>>, Commits(1), TRUE, FALSE)}

\* The first flat repository when two organizations are searched:
GithubProfilesFew ==
    {SP(<<>>, <<>>, Commits(0), TRUE, FALSE),
     SP(<<A>>, <<>>, Commits(0), TRUE, FALSE),
     SP(<<A>>, <<M>>, Commits(1), TRUE, FALSE)}

\* The other flat repositories when two organizations are searched:
GithubProfilesOther ==
    {SP(<<>>, <<>>, Commits(0), TRUE, FALSE), SP(<<A>>, <<M>>, Commits(1), TRUE, FALSE)}

\* The branch dict of the hierarchical provider.
StashBranch(name, i) ==
    [id |-> RefsHeads(name), displayId |-> name, latestCommit |-> <<"sha", "stash", ToString(i)>>]

\* The pull request dict of the hierarchical provider.
StashPR(i, k, from, to) ==
    [id |-> k, fromRef |-> RefsHeads(from), toRef |-> RefsHeads(to),
     version |-> <<"v", ToString(k)>>,
     href |-> StashUrl \o <<"/pull-requests/", ToString(i), ToString(k)>>]

MkStashRepo(i, p) ==
    LET src == IF p.branches = <<>> THEN X ELSE p.branches[1]
        others == IF p.has_d \/ D \in Range(p.prs) THEN <<M, X, D>> ELSE <<M, X>>
        names == p.branches \o others
    IN  [branches |-> [k \in 1..Len(names) |-> StashBranch(names[k], i)],
         prs |-> <<StashPR(i, 1, X, M)>>
                 \o [k \in 1..Len(p.prs) |-> StashPR(i, k + 1, src, p.prs[k])],
         pr_state |-> [k \in 1..(Len(p.prs) + 1) |-> "OPEN"],
         diff |-> p.diff,
         can_merge |-> p.can_merge]

\* github.Branch: name and commit.sha
GithubBranch(name, i) == [name |-> name, sha |-> <<"sha", "github", ToString(i)>>]

\* github.PullRequest: number, head.ref, base.ref, mergeable, html_url
GithubPR(i, k, from, to, mergeable) ==
    [number |-> k, head |-> from, base |-> to, mergeable |-> mergeable,
     html_url |-> GithubUrl \o <<"/pull/", ToString(i), ToString(k)>>]

MkGithubRepo(i, p) ==
    LET src == IF p.branches = <<>> THEN X ELSE p.branches[1]
        others == IF p.has_d \/ D \in Range(p.prs) THEN <<M, X, D>> ELSE <<M, X>>
        names == p.branches \o others
    IN  [org |-> GithubDirectory[i].org,
         name |-> GithubDirectory[i].name,
         branches |-> [k \in 1..Len(names) |-> GithubBranch(names[k], i)],
         prs |-> <<GithubPR(i, 1, X, M, TRUE)>>
                 \o [k \in 1..Len(p.prs) |->
                        GithubPR(i, k + 1, src, p.prs[k], p.can_merge)],
         pr_state |-> [k \in 1..(Len(p.prs) + 1) |-> "OPEN"],
         diff |-> p.diff]

\* The hierarchical repository `repo` with one more branch, called `name`.
WithStashBranch(repo, i, name) ==
    [repo EXCEPT !.branches = Append(@, StashBranch(name, i))]

NoException == [type |-> "none", lines |-> <<>>]

\* merge(), obtain_branches_to_delete() and delete_branches() called as
\* functions, by no command of the bot and not by main()
NoBot ==
    [caller |-> "none", token |-> TRUE, github_token |-> TRUE, config |-> "set",
     delete_branches |-> [type |-> "str", has_branch |-> FALSE, plans |-> <<>>],
     answers |-> <<>>, result |-> -1, escaped |-> "none"]

\* The actors that talk to the bot (msg.frm.nick).
Users == {"u1", "u2"}

\* A value of the setting "delete-branches": the str "" of line 786, a dict
\* from branch names to lists of plans, or no such key ("absent").
DeleteBranchesSetting(type, entries) == [type |-> type, entries |-> entries]

\* line 739: the settings of an actor nothing was saved for
NotStored ==
    [token |-> FALSE, github_token |-> FALSE,
     delete_branches |-> DeleteBranchesSetting("absent", <<>>)]

\* The storage of the bot when no command of it is running.
NoUserSettings == [u \in Users |-> NotStored]

\* The hierarchical repositories when two organizations are searched:
StashProfilesFew ==
    {SP(<<>>, <<>>, Commits(0), TRUE, FALSE),
     SP(<<A>>, <<>>, Commits(0), TRUE, FALSE),
     SP(<<A>>, <<M>>, Commits(1), TRUE, FALSE)}

Init ==
    /\ \/ /\ github_organizations = <<"OA">>
          /\ \E s1 \in StashProfilesFirst, s2 \in StashProfilesSecond :
                 stash = <<MkStashRepo(1, s1), MkStashRepo(2, s2)>>
          /\ \E g1 \in GithubProfilesFirst, g2 \in GithubProfilesSecond :
                 github = <<MkGithubRepo(1, g1), MkGithubRepo(2, g2),
                            MkGithubRepo(3, SP(<<>>, <<>>, Commits(0), TRUE, FALSE))>>
       \/ /\ github_organizations = <<"OA", "OB">>
          /\ \E s1 \in StashProfilesFew, s2 \in StashProfilesFew :
                 stash = <<MkStashRepo(1, s1), MkStashRepo(2, s2)>>
          /\ \E g1 \in GithubProfilesFew, g2 \in GithubProfilesOther,
                g3 \in GithubProfilesOther :
                 github = <<MkGithubRepo(1, g1), MkGithubRepo(2, g2), MkGithubRepo(3, g3)>>
       \/ \* a pull request to `d` in one repository; the other has no pull
          \* request and no branch `d`, but a branch `dx`
          /\ github_organizations = <<"OA">>
          /\ \E d \in {Commits(0), Commits(1)} :
                 stash = <<MkStashRepo(1, SP(<<A>>, <<D>>, Commits(1), TRUE, FALSE)),
                           WithStashBranch(MkStashRepo(2, SP(<<A>>, <<>>, d, TRUE, FALSE)),
                                           2, DX)>>
          /\ github = [i \in 1..3 |-> MkGithubRepo(i, SP(<<>>, <<>>, Commits(0), TRUE, FALSE))]
    /\ command = "merge"
    /\ bot = NoBot
    /\ branches_fetched = <<>>
    /\ stash_projects = StashProjects
    /\ branches_to_delete = <<>>
    /\ branch_text = A
    /\ confirm \in BOOLEAN
    /\ force \in BOOLEAN
    /\ pc = "create_plans"
    /\ plans = <<>>
    /\ has_prs = FALSE
    /\ github_branch_text = <<>>
    /\ futures = <<>>
    /\ org_pos = 1
    /\ collected = {}
    /\ from_branch = <<>>
    /\ plans_and_commits = <<>>
    /\ idx = 1
    /\ shown = {}
    /\ lines = <<>>
    /\ raised = NoException
    /\ calls = <<>>
    /\ user_settings = NoUserSettings
    /\ requests = <<>>

(***************************************************************************)
(* StashAPI and GithubAPI                                                  *)
(***************************************************************************)
Call(api, op, project, slug, ref, pr) ==
    [api |-> api, op |-> op, project |-> project, slug |-> slug, ref |-> ref, pr |-> pr]

Indices(s) == [k \in 1..Len(s) |-> k]

\* StashAPI.fetch_repos: the repositories of a project, as indices of StashRepos
StashFetchRepos(project) ==
    SelectSeq(Indices(StashRepos), LAMBDA i : StashRepos[i].project = project)

\* StashAPI.fetch_branches: branches(filterText=...) matches by substring
StashFetchBranches(i, filter_text) ==
    SelectSeq(stash[i].branches, LAMBDA b : IsSubstring(filter_text, b.displayId))

\* StashAPI.fetch_pull_requests: the open pull requests of a repository
StashFetchPullRequests(i) ==
    LET open == SelectSeq(Indices(stash[i].prs), LAMBDA k : stash[i].pr_state[k] = "OPEN")
    IN  [k \in 1..Len(open) |-> stash[i].prs[open[k]]]

\* StashAPI.fetch_repo_commits: NotFoundException when the source branch is
\* not in the repository, the repository's answer otherwise
StashFetchRepoCommits(i, from, to) ==
    LET known(ref) == \E k \in DOMAIN stash[i].branches :
                          ref \in {stash[i].branches[k].displayId, stash[i].branches[k].id}
    IN  IF known(from) /\ known(to) THEN stash[i].diff ELSE NotFound

\* github.Repository: the organization and the name of each repository the
\* provider holds
GithubRepos == [i \in DOMAIN github |-> [org |-> github[i].org, name |-> github[i].name]]

\* self.repos[organization][repo_name]: 0 stands for KeyError
GithubRepoIndex(organization, repo_name) ==
    IF \E i \in DOMAIN GithubRepos :
           GithubRepos[i] = [org |-> organization, name |-> repo_name]
    THEN CHOOSE i \in DOMAIN GithubRepos :
             GithubRepos[i] = [org |-> organization, name |-> repo_name]
    ELSE 0

\* GithubAPI.fetch_repos
GithubFetchRepos(organization) ==
    SelectSeq(Indices(GithubRepos), LAMBDA i : GithubRepos[i].org = organization)

\* GithubAPI.fetch_branches: every branch for the empty name, the branch of
\* exactly that name otherwise, [] when the provider answers 404
GithubFetchBranches(organization, repo_name, branch_name) ==
    LET bs == github[GithubRepoIndex(organization, repo_name)].branches
    IN  IF branch_name = <<>>
        THEN bs
        ELSE SelectSeq(bs, LAMBDA b : b.name = branch_name)

\* GithubAPI.fetch_pull_requests
GithubFetchPullRequests(organization, repo_name) ==
    LET r == github[GithubRepoIndex(organization, repo_name)]
        open == SelectSeq(Indices(r.prs), LAMBDA k : r.pr_state[k] = "OPEN")
    IN  [k \in 1..Len(open) |-> r.prs[open[k]]]

(***************************************************************************)
(* Branch, MergePlan and the report lines                                  *)
(***************************************************************************)
Branch(id, display_id, latest_commit) ==
    [id |-> id, display_id |-> display_id, latest_commit |-> latest_commit]

MergePlan(project, slug, comes_from_github, branches, pull_requests, to_branch) ==
    [project |-> project, slug |-> slug, comes_from_github |-> comes_from_github,
     branches |-> branches, pull_requests |-> pull_requests, to_branch |-> to_branch]

\* A line of the report or of a diagnostic: the kind of the line and what
\* the format string of the code puts in it.
Line(kind, slug, names, n, links) ==
    [kind |-> kind, slug |-> slug, names |-> names, n |-> n, links |-> links]

CheckError(ls) == [type |-> "CheckError", lines |-> ls]
Exception(type) == [type |-> type, lines |-> <<>>]

(***************************************************************************)
(* create_plans                                                            *)
(***************************************************************************)
\* lines 233-255: the plan of one hierarchical repository, <<>> when no
\* branch matches
\* The branches found are kept whatever their names.
KeepAllBranches(all, text, exactly_branch_name) == all

\* lines 240-243
KeepBranches(all, text, exactly_branch_name) ==
    IF exactly_branch_name
    THEN SelectSeq(all, LAMBDA b : b.display_id = text)
    ELSE all

StashPlan(i, text, exactly_branch_name) ==
    LET found == StashFetchBranches(i, text)
        all == [k \in 1..Len(found) |->
                   Branch(found[k].id, found[k].displayId, found[k].latestCommit)]
        branches == KeepBranches(all, text, exactly_branch_name)
        branch_ids == {branches[k].id : k \in DOMAIN branches}
        prs == SelectSeq(StashFetchPullRequests(i), LAMBDA pr : pr.fromRef \in branch_ids)
    IN  IF branches = <<>>
        THEN <<>>
        ELSE << MergePlan(StashRepos[i].project, StashRepos[i].slug, FALSE, branches, prs,
                          IF prs # <<>> THEN prs[1].toRef ELSE None) >>

\* lines 227-229
StashRepoList(projects) ==
    Flatten([k \in 1..Len(projects) |-> StashFetchRepos(projects[k])])

\* lines 231-255
StashPlans(projects, text, exactly_branch_name) ==
    LET repos == StashRepoList(projects)
    IN  Flatten([k \in 1..Len(repos) |-> StashPlan(repos[k], text, exactly_branch_name)])

\* the calls of lines 227-255
StashDiscoveryCalls(projects, text, exactly_branch_name) ==
    LET repos == StashRepoList(projects)
    IN  [k \in 1..Len(projects) |->
            Call("stash", "fetch_repos", projects[k], "", <<>>, 0)]
        \o Flatten([k \in 1..Len(repos) |->
            <<Call("stash", "fetch_branches", StashRepos[repos[k]].project,
                   StashRepos[repos[k]].slug, text, 0)>>
            \o (IF StashPlan(repos[k], text, exactly_branch_name) = <<>>
                THEN <<>>
                ELSE <<Call("stash", "fetch_pull_requests", StashRepos[repos[k]].project,
                            StashRepos[repos[k]].slug, <<>>, 0)>>)])

\* The flat provider is asked for the search text whatever was found.
GithubBranchTextIsSearchText(ps, text) == text

\* lines 258-261
GithubBranchText(ps, text) ==
    IF Len(ps) > 0 /\ Len(ps[1].branches) > 0
    THEN ps[1].branches[1].display_id
    ELSE text

\* line 594: merge() calls create_plans with its defaults; lines 706-714:
\* obtain_branches_to_delete calls it with exactly_branch_name=True and
\* assure_has_prs=False
ExactlyBranchName == command = "delete"

\* create_plans called with assure_has_prs=False by every caller.
AssureHasPrsNever == FALSE

AssureHasPrs == command = "merge"

\* lines 226-265: the hierarchical half, in the order of the projects and of
\* their repositories
CreatePlansStash ==
    /\ pc = "create_plans"
    /\ raised.type = "none"
    /\ LET ps == StashPlans(stash_projects, branch_text, ExactlyBranchName)
       IN  /\ plans' = ps
           /\ has_prs' = (\E k \in DOMAIN ps : ps[k].pull_requests # <<>>)
           /\ github_branch_text' = GithubBranchText(ps, branch_text)
    /\ calls' = calls \o StashDiscoveryCalls(stash_projects, branch_text, ExactlyBranchName)
                \o [k \in 1..Len(github_organizations) |->
                       Call("github", "fetch_repos", github_organizations[k], "", <<>>, 0)]
    /\ org_pos' = 1
    /\ pc' = "submit"
    /\ UNCHANGED <<stash, github, command, bot, stash_projects,
                   branches_to_delete, branches_fetched, branch_text, confirm, force, github_organizations,
                   user_settings, requests,
                   futures, collected, from_branch, plans_and_commits, idx, shown,
                   lines, raised>>

Running(fs) == {f \in DOMAIN fs : fs[f].state = "running"}
Pending(fs) == {f \in DOMAIN fs : fs[f].state = "pending"}

\* Every submitted task gets a thread of its own at once.
StartsAtOnce(k) == "running"

\* line 269, ThreadPoolExecutor(max_workers=16): the k-th task submitted to
\* the pool gets a thread if one of the MaxWorkers is left and is queued
\* otherwise
SubmittedState(k) == IF k <= MaxWorkers THEN "running" ELSE "pending"

\* lines 268-279: the tasks of one organization are submitted to a pool of
\* MaxWorkers threads (the calls are logged as they are submitted); `futures`
\* is not reset between organizations
Submit ==
    /\ pc = "submit"
    /\ org_pos <= Len(github_organizations)
    /\ LET organization == github_organizations[org_pos]
           repos == GithubFetchRepos(organization)
           new == [k \in 1..Len(repos) |->
                      [organization |-> organization,
                       repo_name |-> GithubRepos[repos[k]].name,
                       state |-> SubmittedState(k),
                       result |-> <<>>]]
       IN  /\ futures' = futures \o new
           /\ calls' = calls \o [k \in 1..Len(repos) |->
                           Call("github", "fetch_branches", organization,
                                GithubRepos[repos[k]].name, github_branch_text, 0)]
    /\ collected' = {}
    /\ pc' = "as_completed"
    /\ UNCHANGED <<stash, github, command, bot, stash_projects,
                   branches_to_delete, branches_fetched, branch_text, confirm, force, github_organizations,
                   user_settings, requests,
                   plans, has_prs, github_branch_text, org_pos, from_branch,
                   plans_and_commits, idx, shown, lines, raised>>

\* a worker thread runs github_api.fetch_branches(organization, repo_name,
\* branch_name=github_branch_text) to its end and takes the next queued task
TaskDone(f) ==
    /\ raised.type = "none"
    /\ f \in Running(futures)
    /\ LET t == futures[f]
           next == IF Pending(futures) = {} THEN 0
                   ELSE CHOOSE g \in Pending(futures) : \A h \in Pending(futures) : g <= h
       IN  futures' = [g \in DOMAIN futures |->
                          IF g = f
                          THEN [t EXCEPT !.state = "done",
                                         !.result = GithubFetchBranches(
                                             t.organization, t.repo_name, github_branch_text)]
                          ELSE IF g = next
                          THEN [futures[g] EXCEPT !.state = "running"]
                          ELSE futures[g]]
    /\ UNCHANGED <<stash, github, command, bot, stash_projects,
                   branches_to_delete, branches_fetched, branch_text, confirm, force, github_organizations, user_settings, requests, pc,
                   plans, has_prs, github_branch_text, org_pos, collected, from_branch,
                   plans_and_commits, idx, shown, lines, raised, calls>>

\* A flat plan whose to_branch is the base ref as the provider gives it.
GithubPlanBareTarget(organization, repo_name, branches, text) ==
    LET prs == SelectSeq(GithubFetchPullRequests(organization, repo_name),
                         LAMBDA pr : pr.head = text)
    IN  MergePlan(organization, repo_name, TRUE,
                  [k \in 1..Len(branches) |->
                      Branch(branches[k].name, branches[k].name, branches[k].sha)],
                  prs,
                  IF prs # <<>> THEN prs[1].base ELSE None)

\* lines 287-301: the plan of the yielded future, under the organization of
\* the current iteration
GithubPlan(organization, repo_name, branches, text) ==
    LET prs == SelectSeq(GithubFetchPullRequests(organization, repo_name),
                         LAMBDA pr : pr.head = text)
    IN  MergePlan(organization, repo_name, TRUE,
                  [k \in 1..Len(branches) |->
                      Branch(branches[k].name, branches[k].name, branches[k].sha)],
                  prs,
                  IF prs # <<>> THEN RefsHeads(prs[1].base) ELSE None)

\* The plan takes the place of the flat plan added before it, if any.
ReplaceLastFlatPlan(ps, plan) ==
    IF ps # <<>> /\ ps[Len(ps)].comes_from_github
    THEN [ps EXCEPT ![Len(ps)] = plan]
    ELSE Append(ps, plan)

\* line 289
AppendPlan(ps, plan) == Append(ps, plan)

\* lines 281-301: as_completed yields a finished future of `futures`
Collect(f) ==
    /\ pc = "as_completed"
    /\ raised.type = "none"
    /\ f \in DOMAIN futures
    /\ f \notin collected
    /\ futures[f].state = "done"
    /\ collected' = collected \cup {f}
    /\ LET organization == github_organizations[org_pos]
           repo_name == futures[f].repo_name
           branches == futures[f].result
       IN  IF branches = <<>>
           THEN UNCHANGED <<plans, has_prs, raised, calls>>
           ELSE IF GithubRepoIndex(organization, repo_name) = 0
           THEN /\ raised' = Exception("KeyError")
                /\ UNCHANGED <<plans, has_prs, calls>>
           ELSE LET plan == GithubPlan(organization, repo_name, branches, github_branch_text)
                IN  /\ plans' = AppendPlan(plans, plan)
                    /\ has_prs' = (has_prs \/ plan.pull_requests # <<>>)
                    /\ calls' = Append(calls, Call("github", "fetch_pull_requests",
                                                   organization, repo_name, <<>>, 0))
                    /\ UNCHANGED raised
    /\ UNCHANGED <<stash, github, command, bot, stash_projects,
                   branches_to_delete, branches_fetched, branch_text, confirm, force, github_organizations, user_settings, requests, pc,
                   github_branch_text, futures, org_pos, from_branch, plans_and_commits,
                   idx, shown, lines>>

\* the end of the `with ThreadPoolExecutor` block of one organization
NextOrganization ==
    /\ pc = "as_completed"
    /\ raised.type = "none"
    /\ collected = DOMAIN futures
    /\ org_pos' = org_pos + 1
    /\ pc' = "submit"
    /\ UNCHANGED <<stash, github, command, bot, stash_projects,
                   branches_to_delete, branches_fetched, branch_text, confirm, force, github_organizations,
                   user_settings, requests,
                   plans, has_prs, github_branch_text, futures, collected, from_branch,
                   plans_and_commits, idx, shown, lines, raised, calls>>

\* lines 303-315: how create_plans ends
CreatePlansOutcome(ps, prs_found, assure_has_prs) ==
    IF ps = <<>> THEN "no_branch"
    ELSE IF assure_has_prs /\ ~prs_found THEN "no_prs"
    ELSE "plans"

CreatePlansError(outcome, text, projects, organizations) ==
    IF outcome = "no_branch"
    THEN CheckError(<<Line("could_not_find_any_branch", "",
                           <<text, projects, organizations>>, 0, <<>>)>>)
    ELSE CheckError(<<Line("no_prs_are_open", "", <<text>>, 0, <<>>)>>)

CreatePlansEnd ==
    /\ pc = "submit"
    /\ org_pos > Len(github_organizations)
    /\ LET outcome == CreatePlansOutcome(plans, has_prs, AssureHasPrs)
       IN  IF outcome = "plans"
           THEN /\ pc' = (IF command = "merge" THEN "ensure_text_matches_unique_branch"
                                              ELSE "found_branch")
                /\ UNCHANGED raised
           ELSE /\ raised' = CreatePlansError(outcome, branch_text, stash_projects,
                                              github_organizations)
                /\ UNCHANGED pc
    /\ UNCHANGED <<stash, github, command, bot, stash_projects,
                   branches_to_delete, branches_fetched, branch_text, confirm, force, github_organizations,
                   user_settings, requests,
                   plans, has_prs, github_branch_text, futures, org_pos, collected,
                   from_branch, plans_and_commits, idx, shown, lines, calls>>

(***************************************************************************)
(* The validation stages                                                   *)
(***************************************************************************)
NoLink == <<>>

\* "[PR#{id}]({url})": x.number and x.html_url of a github PullRequest,
\* x["id"] and get_self_url(x) of a Stash dict
PrLink(plan, pr) ==
    IF plan.comes_from_github
    THEN [style |-> "pr", url |-> pr.html_url, project |-> "", slug |-> "",
          from |-> <<>>, to |-> <<>>, id |-> pr.number]
    ELSE [style |-> "pr", url |-> pr.href, project |-> "", slug |-> "",
          from |-> <<>>, to |-> <<>>, id |-> pr.id]

\* [f(ps[k]) for k in range(len(ps)) if keep(ps[k])], as plan indices
Offenders(ps, keep(_)) == SelectSeq(Indices(ps), LAMBDA k : keep(ps[k]))

\* an ambiguity diagnostic that stops at the first plan and its first name
EnsureTextMatchesFirstOnly(ps, text) ==
    LET bad == Offenders(ps, LAMBDA plan : Len(plan.branches) > 1)
    IN  IF bad = <<>>
        THEN <<>>
        ELSE <<Line("more_than_one_branch_matches", "", <<text>>, 0, NoLink),
               Line("matched_branches", ps[bad[1]].slug,
                    <<ps[bad[1]].branches[1].display_id>>, 0, NoLink),
               Line("use_a_more_complete_text", "", <<>>, 0, NoLink)>>

\* lines 321-333: the lines of the error, <<>> when the check passes
EnsureTextMatchesUniqueBranchLines(ps, text) ==
    LET bad == Offenders(ps, LAMBDA plan : Len(plan.branches) > 1)
    IN  IF bad = <<>>
        THEN <<>>
        ELSE <<Line("more_than_one_branch_matches", "", <<text>>, 0, NoLink)>>
             \o [k \in 1..Len(bad) |->
                    Line("matched_branches", ps[bad[k]].slug,
                         [j \in 1..Len(ps[bad[k]].branches) |->
                             ps[bad[k]].branches[j].display_id], 0, NoLink)]
             \o <<Line("use_a_more_complete_text", "", <<>>, 0, NoLink)>>

\* a duplicate diagnostic that shows the first pull request of each plan only
EnsureUniquePullRequestsFirstLink(ps, from_branch_display_id) ==
    LET bad == Offenders(ps, LAMBDA plan : Len(plan.pull_requests) > 1)
    IN  IF bad = <<>>
        THEN <<>>
        ELSE <<Line("multiples_prs_found", "", <<from_branch_display_id>>, 0, NoLink)>>
             \o [k \in 1..Len(bad) |->
                    Line("prs_of_plan", ps[bad[k]].slug, <<>>, 0,
                         <<PrLink(ps[bad[k]], ps[bad[k]].pull_requests[1])>>)]
             \o <<Line("sort_that_mess_yourself", "", <<>>, 0, NoLink)>>

\* lines 341-362
EnsureUniquePullRequestsLines(ps, from_branch_display_id) ==
    LET bad == Offenders(ps, LAMBDA plan : Len(plan.pull_requests) > 1)
    IN  IF bad = <<>>
        THEN <<>>
        ELSE <<Line("multiples_prs_found", "", <<from_branch_display_id>>, 0, NoLink)>>
             \o [k \in 1..Len(bad) |->
                    Line("prs_of_plan", ps[bad[k]].slug, <<>>, 0,
                         [j \in 1..Len(ps[bad[k]].pull_requests) |->
                             PrLink(ps[bad[k]], ps[bad[k]].pull_requests[j])])]
             \o <<Line("sort_that_mess_yourself", "", <<>>, 0, NoLink)>>

\* lines 552-557
EnsureHasPullRequestFails(ps) == ~(\E k \in DOMAIN ps : ps[k].to_branch # None)

\* lines 368-377: the loop that compares the targets
MultipleTargetBranches(ps) ==
    LET with_pr == Offenders(ps, LAMBDA plan : plan.pull_requests # <<>>)
    IN  \E k \in DOMAIN with_pr : ps[with_pr[k]].to_branch # ps[with_pr[1]].to_branch

\* lines 379-404
EnsurePullRequestsTargetSameBranchLines(ps, from_branch_display_id) ==
    LET with_pr == Offenders(ps, LAMBDA plan : plan.pull_requests # <<>>)
    IN  IF ~MultipleTargetBranches(ps)
        THEN <<>>
        ELSE <<Line("prs_have_different_targets", "", <<from_branch_display_id>>, 0, NoLink)>>
             \o [k \in 1..Len(with_pr) |->
                    LET plan == ps[with_pr[k]]
                        pr == plan.pull_requests[1]
                    IN  Line("pr_targets", plan.slug,
                             <<IF plan.comes_from_github THEN pr.base ELSE pr.toRef>>,
                             0, <<PrLink(plan, pr)>>)]
             \o <<Line("fix_those_prs", "", <<>>, 0, NoLink),
                  Line("pass_force", "", <<>>, 0, NoLink)>>

\* urlencode of a value of the query string
UrlEncode(s) == [k \in DOMAIN s |-> IF s[k] = RH THEN "refs%2Fheads%2F" ELSE s[k]]

\* a create-PR link in the query form for both providers
MakePrLinkQuery(url, project, slug, from, to) ==
    [style |-> "query_compare", url |-> url, project |-> project, slug |-> slug,
     from |-> UrlEncode(from), to |-> UrlEncode(to), id |-> 0]

\* lines 407-427
MakePrLink(url, project, slug, from, to) ==
    IF IsSubstring(<<"github.com">>, url)
    THEN [style |-> "path_compare", url |-> url, project |-> project, slug |-> slug,
          from |-> from, to |-> to, id |-> 0]
    ELSE [style |-> "query_compare", url |-> url, project |-> project, slug |-> slug,
          from |-> UrlEncode(from), to |-> UrlEncode(to), id |-> 0]

StashRepoIndex(project, slug) ==
    CHOOSE i \in DOMAIN StashRepos : StashRepos[i] = [project |-> project, slug |-> slug]

\* line 436; <<>> stands for StopIteration
DefaultBranch(ps) ==
    LET with_target == Offenders(ps, LAMBDA plan : plan.to_branch # None)
    IN  IF with_target = <<>> THEN None ELSE ps[with_target[1]].to_branch

\* lines 438-454
DefaultBranchExists(plan, default_branch) ==
    LET branch_name == StripRefsHeads(default_branch)
    IN  IF plan.comes_from_github
        THEN Len(GithubFetchBranches(plan.project, plan.slug, branch_name)) > 0
        ELSE Len(StashFetchBranches(StashRepoIndex(plan.project, plan.slug), branch_name)) > 0

\* lines 457-462
ToBranch(plan, default_branch) ==
    IF plan.to_branch # None THEN plan.to_branch
    ELSE IF DefaultBranchExists(plan, default_branch) THEN default_branch
    ELSE RefsHeads(M)

\* GithubAPI.fetch_repo_commits: repo.compare(to_branch, from_branch).commits;
\* the provider answers 404 when the repository has no branch from_branch
GithubFetchRepoCommits(organization, repo_name, from, to) ==
    LET r == github[GithubRepoIndex(organization, repo_name)]
    IN  IF \E k \in DOMAIN r.branches : r.branches[k].name = from
        THEN r.diff
        ELSE [status |-> "GithubException", n |-> 0]

\* lines 464-481: NotFoundException of the hierarchical provider becomes []
CommitsOf(plan, from, to) ==
    IF plan.comes_from_github
    THEN GithubFetchRepoCommits(plan.project, plan.slug, from, to)
    ELSE LET got == StashFetchRepoCommits(StashRepoIndex(plan.project, plan.slug), from, to)
         IN  IF got.status = "NotFound" THEN Commits(0) ELSE got

\* lines 483-501: the line of a plan with commits and no pull request
UncreatedPullRequestLine(plan, from, to, commits) ==
    Line("create_pr", plan.slug, <<>>, commits.n,
         <<MakePrLink(IF plan.comes_from_github THEN GithubUrl ELSE StashUrl,
                      plan.project, plan.slug, from, to)>>)

\* the first plan whose diff ends the run with an exception, 0 when none
FirstFailedDiff(ps, from) ==
    LET failed == Offenders(ps, LAMBDA plan :
                     CommitsOf(plan, from, ToBranch(plan, DefaultBranch(ps))).status # "ok")
    IN  IF failed = <<>> THEN 0 ELSE failed[1]

\* lines 434-509: the lines of the error, <<>> when the check passes
GetCommitsLines(ps, from) ==
    LET to(plan) == ToBranch(plan, DefaultBranch(ps))
        bad == Offenders(ps, LAMBDA plan :
                   CommitsOf(plan, from, to(plan)).n > 0 /\ plan.pull_requests = <<>>)
    IN  IF bad = <<>>
        THEN <<>>
        ELSE <<Line("commits_but_no_prs", "", <<from>>, 0, NoLink)>>
             \o [k \in 1..Len(bad) |->
                    UncreatedPullRequestLine(ps[bad[k]], from, to(ps[bad[k]]),
                        CommitsOf(ps[bad[k]], from, to(ps[bad[k]])))]
             \o <<Line("create_prs_before_merging", "", <<>>, 0, NoLink)>>

\* lines 502-511: the (plan, commits) pairs, a plan as its index in `plans`
GetCommitsResult(ps, from) ==
    LET to(plan) == ToBranch(plan, DefaultBranch(ps))
        some == Offenders(ps, LAMBDA plan : CommitsOf(plan, from, to(plan)).n > 0)
    IN  [k \in 1..Len(some) |->
            <<some[k], CommitsOf(ps[some[k]], from, to(ps[some[k]])).n>>]

\* the calls of lines 456-481 for the plans 1..last
GetCommitsCalls(ps, from, last) ==
    Flatten([k \in 1..last |->
        LET plan == ps[k]
            api == IF plan.comes_from_github THEN "github" ELSE "stash"
        IN  (IF plan.to_branch # None
             THEN <<>>
             ELSE <<Call(api, "fetch_branches", plan.project, plan.slug,
                         StripRefsHeads(DefaultBranch(ps)), 0)>>)
            \o <<Call(api, "fetch_repo_commits", plan.project, plan.slug,
                      ToBranch(plan, DefaultBranch(ps)), 0)>>])

\* a mergeability test that finds every pull request mergeable
IsMergeableAlways(plan) == TRUE

\* lines 518-533: pull_request.mergeable of the object got at discovery for
\* GitHub, can_merge() of the pull request fetched by id for Stash
IsMergeable(plan) ==
    IF plan.comes_from_github
    THEN plan.pull_requests[1].mergeable
    ELSE stash[StashRepoIndex(plan.project, plan.slug)].can_merge

\* lines 514-549, for the plans of plans_and_commits
EnsureNoConflictsLines(ps, from) ==
    LET bad == Offenders(ps, LAMBDA plan : ~IsMergeable(plan))
    IN  IF bad = <<>>
        THEN <<>>
        ELSE <<Line("prs_have_problems", "", <<from>>, 0, NoLink)>>
             \o [k \in 1..Len(bad) |->
                    Line("conflict", ps[bad[k]].slug, <<>>, 0,
                         <<PrLink(ps[bad[k]], ps[bad[k]].pull_requests[1])>>)]
             \o <<Line("fix_them", "", <<>>, 0, NoLink)>>

\* a conflict check that merges each pull request it looks at
EnsureNoConflictsMerging(ps) ==
    Flatten([k \in 1..Len(ps) |->
        <<Call(IF ps[k].comes_from_github THEN "github" ELSE "stash", "merge",
               ps[k].project, ps[k].slug, <<>>, 0)>>])

\* the calls of lines 523-527
EnsureNoConflictsCalls(ps) ==
    Flatten([k \in 1..Len(ps) |->
        IF ps[k].comes_from_github
        THEN <<>>
        ELSE <<Call("stash", "fetch_pull_request", ps[k].project, ps[k].slug, <<>>,
                    ps[k].pull_requests[1].id)>>])

\* a pipeline that goes from the branch check straight to the PR-presence check
StageAfterSkippingUniquePullRequests(stage) ==
    CASE stage = "ensure_text_matches_unique_branch" -> "ensure_has_pull_request"
      [] stage = "ensure_unique_pull_requests" -> "ensure_has_pull_request"
      [] stage = "ensure_has_pull_request" -> "ensure_pull_requests_target_same_branch"
      [] stage = "ensure_pull_requests_target_same_branch" -> "get_commits"
      [] stage = "get_commits" -> "ensure_no_conflicts"
      [] stage = "ensure_no_conflicts" -> "yield_header"

\* lines 597-607 of merge(): the stage that follows a stage that passed
StageAfter(stage) ==
    CASE stage = "ensure_text_matches_unique_branch" -> "ensure_unique_pull_requests"
      [] stage = "ensure_unique_pull_requests" -> "ensure_has_pull_request"
      [] stage = "ensure_has_pull_request" -> "ensure_pull_requests_target_same_branch"
      [] stage = "ensure_pull_requests_target_same_branch" -> "get_commits"
      [] stage = "get_commits" -> "ensure_no_conflicts"
      [] stage = "ensure_no_conflicts" -> "yield_header"

\* a stage without provider calls: raise CheckError(error_lines) or go on
Stage(name, error_lines) ==
    /\ pc = name
    /\ raised.type = "none"
    /\ IF error_lines # <<>>
       THEN /\ raised' = CheckError(error_lines)
            /\ UNCHANGED pc
       ELSE /\ pc' = StageAfter(name)
            /\ UNCHANGED raised

\* line 597
EnsureTextMatchesUniqueBranch ==
    /\ Stage("ensure_text_matches_unique_branch",
             EnsureTextMatchesUniqueBranchLines(plans, branch_text))
    /\ from_branch' = IF EnsureTextMatchesUniqueBranchLines(plans, branch_text) = <<>>
                      THEN plans[1].branches[1].display_id
                      ELSE from_branch
    /\ UNCHANGED <<stash, github, command, bot, stash_projects,
                   branches_to_delete, branches_fetched, branch_text, confirm, force, github_organizations,
                   user_settings, requests,
                   plans, has_prs, github_branch_text, futures, org_pos, collected,
                   plans_and_commits, idx, shown, lines, calls>>

\* line 598
EnsureUniquePullRequests ==
    /\ Stage("ensure_unique_pull_requests",
             EnsureUniquePullRequestsLines(plans, from_branch))
    /\ UNCHANGED <<stash, github, command, bot, stash_projects,
                   branches_to_delete, branches_fetched, branch_text, confirm, force, github_organizations,
                   user_settings, requests,
                   plans, has_prs, github_branch_text, futures, org_pos, collected,
                   from_branch, plans_and_commits, idx, shown, lines, calls>>

\* line 599
EnsureHasPullRequest ==
    /\ Stage("ensure_has_pull_request",
             IF EnsureHasPullRequestFails(plans)
             THEN <<Line("no_pull_request_open", "", <<>>, 0, NoLink)>>
             ELSE <<>>)
    /\ UNCHANGED <<stash, github, command, bot, stash_projects,
                   branches_to_delete, branches_fetched, branch_text, confirm, force, github_organizations,
                   user_settings, requests,
                   plans, has_prs, github_branch_text, futures, org_pos, collected,
                   from_branch, plans_and_commits, idx, shown, lines, calls>>

\* a target check that never runs
ChecksTargetsNever(force_) == FALSE

\* a target check that runs whatever `force` says
ChecksTargetsAlways(force_) == TRUE

\* lines 600-601: `if not force:`
ChecksTargets(force_) == ~force_

EnsurePullRequestsTargetSameBranch ==
    /\ Stage("ensure_pull_requests_target_same_branch",
             IF ChecksTargets(force)
             THEN EnsurePullRequestsTargetSameBranchLines(plans, from_branch)
             ELSE <<>>)
    /\ UNCHANGED <<stash, github, command, bot, stash_projects,
                   branches_to_delete, branches_fetched, branch_text, confirm, force, github_organizations,
                   user_settings, requests,
                   plans, has_prs, github_branch_text, futures, org_pos, collected,
                   from_branch, plans_and_commits, idx, shown, lines, calls>>

\* lines 602-604
GetCommitsAboutToBeMergedByPullRequests ==
    /\ pc = "get_commits"
    /\ raised.type = "none"
    /\ IF DefaultBranch(plans) = None
       THEN /\ raised' = Exception("StopIteration")
            /\ UNCHANGED <<pc, plans_and_commits, calls>>
       ELSE LET failed == FirstFailedDiff(plans, from_branch)
                error_lines == GetCommitsLines(plans, from_branch)
            IN  IF failed # 0
                THEN /\ raised' = Exception("GithubException")
                     /\ calls' = calls \o GetCommitsCalls(plans, from_branch, failed)
                     /\ UNCHANGED <<pc, plans_and_commits>>
                ELSE /\ calls' = calls \o GetCommitsCalls(plans, from_branch, Len(plans))
                     /\ IF error_lines # <<>>
                        THEN /\ raised' = CheckError(error_lines)
                             /\ UNCHANGED <<pc, plans_and_commits>>
                        ELSE /\ plans_and_commits' = GetCommitsResult(plans, from_branch)
                             /\ pc' = StageAfter("get_commits")
                             /\ UNCHANGED raised
    /\ UNCHANGED <<stash, github, command, bot, stash_projects,
                   branches_to_delete, branches_fetched, branch_text, confirm, force, github_organizations,
                   user_settings, requests,
                   plans, has_prs, github_branch_text, futures, org_pos, collected,
                   from_branch, idx, shown, lines>>

PairPlans(pairs) == [k \in 1..Len(pairs) |-> plans[pairs[k][1]]]

\* lines 605-607
EnsureNoConflicts ==
    /\ pc = "ensure_no_conflicts"
    /\ raised.type = "none"
    /\ LET error_lines == EnsureNoConflictsLines(PairPlans(plans_and_commits), from_branch)
       IN  /\ calls' = calls \o EnsureNoConflictsCalls(PairPlans(plans_and_commits))
           /\ IF error_lines # <<>>
              THEN /\ raised' = CheckError(error_lines)
                   /\ UNCHANGED pc
              ELSE /\ pc' = StageAfter("ensure_no_conflicts")
                   /\ UNCHANGED raised
    /\ UNCHANGED <<stash, github, command, bot, stash_projects,
                   branches_to_delete, branches_fetched, branch_text, confirm, force, github_organizations,
                   user_settings, requests,
                   plans, has_prs, github_branch_text, futures, org_pos, collected,
                   from_branch, plans_and_commits, idx, shown, lines>>

(***************************************************************************)
(* The report: merge loop, 'no changes' lines, delete loop, summary        *)
(***************************************************************************)
\* line 609
YieldHeader ==
    /\ pc = "yield_header"
    /\ raised.type = "none"
    /\ lines' = lines \o <<Line("merged_into", "", <<from_branch>>, 0, NoLink)>>
    /\ shown' = {}
    /\ idx' = 1
    /\ pc' = "merge_loop"
    /\ UNCHANGED <<stash, github, command, bot, stash_projects,
                   branches_to_delete, branches_fetched, branch_text, confirm, force, github_organizations,
                   user_settings, requests,
                   plans, has_prs, github_branch_text, futures, org_pos, collected,
                   from_branch, plans_and_commits, raised, calls>>

\* a merge loop that merges whatever `confirm` says
MergesAlways(confirm_) == TRUE

\* lines 619-624: `if confirm:` guards the merge call
MergesPullRequest(confirm_) == confirm_

\* A merge that leaves the pull request open.
KeepOpen(provider, i, k) == provider

\* pull_request.merge(): the pull request leaves the open ones
SetMerged(provider, i, k) ==
    [provider EXCEPT ![i].pr_state[k] = "MERGED"]

\* lines 620-624: pull_request.merge() for GitHub,
\* pull_request.merge(version=plan.pull_requests[0]["version"]) for Stash
MergeCall(plan) ==
    IF plan.comes_from_github
    THEN Call("github", "merge", plan.project, plan.slug, <<>>,
              plan.pull_requests[1].number)
    ELSE Call("stash", "merge", plan.project, plan.slug,
              plan.pull_requests[1].version, plan.pull_requests[1].id)

\* line 625
CheckmarkLine(plan, n) ==
    Line("white_check_mark", plan.slug, <<StripRefsHeads(plan.to_branch)>>, n, NoLink)

\* lines 611-628: one iteration of the merge loop; the provider accepts the
\* merge or answers with an error, which ends the run
MergeLoop ==
    /\ pc = "merge_loop"
    /\ raised.type = "none"
    /\ idx <= Len(plans_and_commits)
    /\ LET plan == plans[plans_and_commits[idx][1]]
           n == plans_and_commits[idx][2]
           pr == plan.pull_requests[1]
           fetch == IF plan.comes_from_github
                    THEN <<>>
                    ELSE <<Call("stash", "fetch_pull_request", plan.project, plan.slug,
                                <<>>, pr.id)>>
           merge_call == MergeCall(plan)
           done == /\ lines' = lines \o <<CheckmarkLine(plan, n)>>
                   /\ shown' = shown \cup {plan.slug}
                   /\ idx' = idx + 1
                   /\ UNCHANGED raised
       IN  IF MergesPullRequest(confirm)
           THEN /\ calls' = calls \o fetch \o <<merge_call>>
                /\ \/ /\ IF plan.comes_from_github
                         THEN /\ github' = SetMerged(github,
                                     GithubRepoIndex(plan.project, plan.slug), pr.number)
                              /\ UNCHANGED stash
                         ELSE /\ stash' = SetMerged(stash,
                                     StashRepoIndex(plan.project, plan.slug), pr.id)
                              /\ UNCHANGED github
                      /\ done
                   \/ /\ raised' = Exception("ProviderError")
                      /\ UNCHANGED <<stash, github, lines, shown, idx>>
           ELSE /\ calls' = calls \o fetch
                /\ done
                /\ UNCHANGED <<stash, github>>
    /\ UNCHANGED <<command, bot, stash_projects,
                   branches_to_delete, branches_fetched, branch_text, confirm, force, github_organizations, user_settings, requests, pc,
                   plans, has_prs, github_branch_text, futures, org_pos, collected,
                   from_branch, plans_and_commits>>

\* line 629: other_plans = (p for p in plans if p.slug not in shown)
OtherPlans(ps, shown_) == SelectSeq(ps, LAMBDA p : p.slug \notin shown_)

\* The merge loop left after its first pair, whatever pairs remain.
MergeLoopLeftAfterFirstPair == idx > 1

\* lines 611-628: the for statement has gone through every (plan, commits)
\* pair
MergeLoopExhausted == idx > Len(plans_and_commits)

\* lines 629-631
YieldNoChanges ==
    /\ pc = "merge_loop"
    /\ raised.type = "none"
    /\ MergeLoopExhausted
    /\ LET other_plans == OtherPlans(plans, shown)
       IN  lines' = lines \o [k \in 1..Len(other_plans) |->
                                 Line("no_changes", other_plans[k].slug, <<>>, 0, NoLink)]
    /\ idx' = 1
    /\ pc' = "delete_loop"
    /\ UNCHANGED <<stash, github, command, bot, stash_projects,
                   branches_to_delete, branches_fetched, branch_text, confirm, force, github_organizations,
                   user_settings, requests,
                   plans, has_prs, github_branch_text, futures, org_pos, collected,
                   from_branch, plans_and_commits, shown, raised, calls>>

\* A delete_branch that leaves the repository as it is.
StashKeepBranch(i, branch) == stash

\* StashAPI.delete_branch: the repository loses the branch of that id
StashDeleteBranch(i, branch) ==
    [stash EXCEPT ![i].branches = SelectSeq(@, LAMBDA b : b.id # branch)]

\* line 639: plan.branches[0].name; Branch (lines 165-169) has the attributes
\* id, display_id and latest_commit
HasAttribute(attribute) == attribute \in {"id", "display_id", "latest_commit"}

\* lines 633-642: one iteration of the delete loop of a confirmed merge
DeleteLoop ==
    /\ pc = "delete_loop"
    /\ raised.type = "none"
    /\ confirm
    /\ idx <= Len(plans)
    /\ LET plan == plans[idx]
       IN  IF plan.comes_from_github
           THEN IF HasAttribute("name")
                THEN /\ calls' = calls \o <<Call("github", "delete_branch", plan.project,
                                                 plan.slug, plan.branches[1].display_id, 0)>>
                     /\ \/ /\ github' = [github EXCEPT
                                  ![GithubRepoIndex(plan.project, plan.slug)].branches =
                                      SelectSeq(@, LAMBDA b :
                                          b.name # plan.branches[1].display_id)]
                           /\ idx' = idx + 1
                           /\ UNCHANGED raised
                        \/ /\ raised' = CheckError(<<Line("error_deleting_branch",
                                  plan.slug, <<plan.branches[1].display_id>>, 0, NoLink)>>)
                           /\ UNCHANGED <<github, idx>>
                     /\ UNCHANGED stash
                ELSE /\ raised' = Exception("AttributeError")
                     /\ UNCHANGED <<stash, github, idx, calls>>
           ELSE /\ calls' = calls \o <<Call("stash", "delete_branch", plan.project,
                                            plan.slug, plan.branches[1].id, 0)>>
                /\ \/ /\ stash' = StashDeleteBranch(
                                      StashRepoIndex(plan.project, plan.slug),
                                      plan.branches[1].id)
                      /\ idx' = idx + 1
                      /\ UNCHANGED raised
                   \/ /\ raised' = Exception("ProviderError")
                      /\ UNCHANGED <<stash, idx>>
                /\ UNCHANGED github
    /\ UNCHANGED <<command, bot, stash_projects,
                   branches_to_delete, branches_fetched, branch_text, confirm, force, github_organizations, user_settings, requests, pc,
                   plans, has_prs, github_branch_text, futures, org_pos, collected,
                   from_branch, plans_and_commits, shown, lines>>

\* line 643-644
SummaryLine(ps) ==
    Line("branch_deleted_from", "", [k \in 1..Len(ps) |-> <<ps[k].slug>>], 0, NoLink)

\* line 646
DryRunLine == Line("dry_run", "", <<>>, 0, NoLink)

\* lines 643-646; without confirm the delete loop goes over the plans and
\* calls nothing
YieldSummary ==
    /\ pc = "delete_loop"
    /\ raised.type = "none"
    /\ confirm => idx > Len(plans)
    /\ lines' = lines \o <<SummaryLine(plans)>>
                      \o (IF ~confirm THEN <<DryRunLine>> ELSE <<>>)
    /\ pc' = "done"
    /\ UNCHANGED <<stash, github, command, bot, stash_projects,
                   branches_to_delete, branches_fetched, branch_text, confirm, force, github_organizations,
                   user_settings, requests,
                   plans, has_prs, github_branch_text, futures, org_pos, collected,
                   from_branch, plans_and_commits, idx, shown, raised, calls>>

Next ==
    \/ CreatePlansStash
    \/ Submit
    \/ \E f \in DOMAIN futures : TaskDone(f)
    \/ \E f \in DOMAIN futures : Collect(f)
    \/ NextOrganization
    \/ CreatePlansEnd
    \/ EnsureTextMatchesUniqueBranch
    \/ EnsureUniquePullRequests
    \/ EnsureHasPullRequest
    \/ EnsurePullRequestsTargetSameBranch
    \/ GetCommitsAboutToBeMergedByPullRequests
    \/ EnsureNoConflicts
    \/ YieldHeader
    \/ MergeLoop
    \/ YieldNoChanges
    \/ DeleteLoop
    \/ YieldSummary

Spec == Init /\ [][Next]_vars

(***************************************************************************)
(* create_plans on an organization with more repositories than the pool    *)
(* has threads                                                              *)
(***************************************************************************)
PoolNames == <<"p01", "p02", "p03", "p04", "p05", "p06", "p07", "p08", "p09",
               "p10", "p11", "p12", "p13", "p14", "p15", "p16", "p17", "p18">>

\* Organization OA has one repository more than the pool has threads,
\* organization OB has two.
PoolDirectory ==
    [k \in 1..(MaxWorkers + 1) |-> [org |-> "OA", name |-> PoolNames[k]]]
    \o <<[org |-> "OB", name |-> "p01"], [org |-> "OB", name |-> "p02"]>>

\* A flat repository without a branch matching the text.
MkPoolRepo(i) ==
    [MkGithubRepo(1, SP(<<>>, <<>>, Commits(0), TRUE, FALSE))
        EXCEPT !.org = PoolDirectory[i].org, !.name = PoolDirectory[i].name]

PoolInit ==
    /\ github_organizations \in {<<"OA", "OB">>, <<"OB", "OA">>}
    /\ \E s1 \in StashProfilesFew :
           stash = <<MkStashRepo(1, s1),
                     MkStashRepo(2, SP(<<>>, <<>>, Commits(0), TRUE, FALSE))>>
    /\ github = [i \in DOMAIN PoolDirectory |-> MkPoolRepo(i)]
    /\ command = "merge"
    /\ bot = NoBot
    /\ branches_fetched = <<>>
    /\ stash_projects = StashProjects
    /\ branches_to_delete = <<>>
    /\ branch_text = A
    /\ confirm = FALSE
    /\ force = FALSE
    /\ pc = "create_plans"
    /\ plans = <<>>
    /\ has_prs = FALSE
    /\ github_branch_text = <<>>
    /\ futures = <<>>
    /\ org_pos = 1
    /\ collected = {}
    /\ from_branch = <<>>
    /\ plans_and_commits = <<>>
    /\ idx = 1
    /\ shown = {}
    /\ lines = <<>>
    /\ raised = NoException
    /\ calls = <<>>
    /\ user_settings = NoUserSettings
    /\ requests = <<>>

\* The tasks of the pool differ in their names only: of the tasks that can
\* finish the first and the last are taken, and a finished future is yielded
\* (the first one first) before the next task finishes.
Ends(fs) == {f \in fs : \A g \in fs : f <= g} \cup {f \in fs : \A g \in fs : f >= g}

Yieldable == {f \in DOMAIN futures : futures[f].state = "done" /\ f \notin collected}

PoolNext ==
    \/ CreatePlansStash
    \/ Submit
    \/ \E f \in Ends(Running(futures)) : Yieldable = {} /\ TaskDone(f)
    \/ \E f \in Yieldable : (\A g \in Yieldable : f <= g) /\ Collect(f)
    \/ NextOrganization
    \/ CreatePlansEnd

SpecPool == PoolInit /\ [][PoolNext]_vars

(***************************************************************************)
(* obtain_branches_to_delete()                                             *)
(***************************************************************************)
\* What a repository holds when a branch is to be deleted: the branch `a`,
\* the longer `ab`, both or none, with or without a pull request.
DeleteProfiles ==
    {SP(b, p, Commits(0), TRUE, FALSE) :
        b \in {<<>>, <<A>>, <<AB>>, <<A, AB>>, <<AB, A>>}, p \in {<<>>, <<M>>}}

\* The second repository of each provider:
DeleteProfilesFew ==
    {SP(<<>>, <<>>, Commits(0), TRUE, FALSE),
     SP(<<A>>, <<>>, Commits(0), TRUE, FALSE),
     SP(<<A>>, <<M>>, Commits(0), TRUE, FALSE),
     SP(<<AB>>, <<M>>, Commits(0), TRUE, FALSE)}

\* A plan the caller's list holds before the call: the branch `x` of the
\* first hierarchical repository.
EarlierPlan ==
    MergePlan("PA", "r1", FALSE, <<Branch(RefsHeads(X), X, <<"sha", "stash", "1">>)>>,
              <<>>, None)

DeleteInit ==
    /\ github_organizations = <<"OA">>
    /\ \E s1 \in DeleteProfiles, s2 \in DeleteProfilesFew :
           stash = <<MkStashRepo(1, s1), MkStashRepo(2, s2)>>
    /\ \E g1 \in DeleteProfiles, g2 \in DeleteProfilesFew :
           github = <<MkGithubRepo(1, g1), MkGithubRepo(2, g2),
                      MkGithubRepo(3, SP(<<>>, <<>>, Commits(0), TRUE, FALSE))>>
    /\ command = "delete"
    /\ bot = NoBot
    /\ branches_fetched = <<>>
    /\ stash_projects = StashProjects
    /\ branches_to_delete \in {<<>>, <<EarlierPlan>>}
    /\ branch_text = A
    /\ confirm = FALSE
    /\ force = FALSE
    /\ pc = "create_plans"
    /\ plans = <<>>
    /\ has_prs = FALSE
    /\ github_branch_text = <<>>
    /\ futures = <<>>
    /\ org_pos = 1
    /\ collected = {}
    /\ from_branch = <<>>
    /\ plans_and_commits = <<>>
    /\ idx = 1
    /\ shown = {}
    /\ lines = <<>>
    /\ raised = NoException
    /\ calls = <<>>
    /\ user_settings = NoUserSettings
    /\ requests = <<>>

\* Every reported repository is marked as having a pull request.
FoundInLineAlwaysHasPr(plan) ==
    Line("found_in", plan.slug,
         << <<IF plan.comes_from_github THEN "GitHub" ELSE "Stash">>,
            plan.branches[1].latest_commit >>,
         1, NoLink)

\* line 722
FoundInLine(plan) ==
    Line("found_in", plan.slug,
         << <<IF plan.comes_from_github THEN "GitHub" ELSE "Stash">>,
            plan.branches[1].latest_commit >>,
         IF Len(plan.pull_requests) > 0 THEN 1 ELSE 0, NoLink)

\* The caller's list is replaced by the plans found.
ReplaceBranchesToDelete(list, ps) == ps

\* lines 720-721: branches_to_delete.append(plan) for each plan
AppendBranchesToDelete(list, ps) == list \o ps

\* lines 719-724: the plans are reported and kept as branches_to_delete
ObtainBranchesToDelete ==
    /\ pc = "found_branch"
    /\ raised.type = "none"
    /\ lines' = <<Line("found_branch_in", "", <<branch_text>>, 0, NoLink)>>
                 \o [k \in 1..Len(plans) |-> FoundInLine(plans[k])]
                 \o <<Line("to_confirm_repeat", "", <<>>, 0, NoLink)>>
    /\ branches_to_delete' = AppendBranchesToDelete(branches_to_delete, plans)
    /\ pc' = "to_confirm"
    /\ UNCHANGED <<stash, github, command, bot, stash_projects,
                   branches_fetched, branch_text, confirm, force, github_organizations,
                   user_settings, requests,
                   plans, has_prs, github_branch_text, futures, org_pos, collected,
                   from_branch, plans_and_commits, idx, shown, raised, calls>>

\* lines 715-717: the diagnostic of create_plans is the only thing yielded
YieldCheckError ==
    /\ command = "delete"
    /\ pc \in {"create_plans", "submit", "as_completed"}
    /\ raised.type = "CheckError"
    /\ lines' = raised.lines
    /\ raised' = NoException
    /\ pc' = "done"
    /\ UNCHANGED <<stash, github, command, bot, stash_projects,
                   branches_to_delete, branches_fetched, branch_text, confirm, force, github_organizations,
                   user_settings, requests,
                   plans, has_prs, github_branch_text, futures, org_pos, collected,
                   from_branch, plans_and_commits, idx, shown, calls>>

(***************************************************************************)
(* delete_branches()                                                       *)
(***************************************************************************)
\* line 662
DeletingBranchesLine(ps) ==
    Line("deleting_branches", "", <<ps[1].branches[1].display_id>>, 0, NoLink)

\* line 684
NoBranchesToDeleteLine == Line("no_branches_to_delete", "", <<>>, 0, NoLink)

\* lines 660-662 and 683-684: delete_branches is called with the list that
\* obtain_branches_to_delete filled
DeleteBranchesStart ==
    /\ command = "delete"
    /\ pc \in {"to_confirm", "done"}
    /\ raised.type = "none"
    /\ IF Len(branches_to_delete) > 0
       THEN /\ lines' = <<DeletingBranchesLine(branches_to_delete)>>
            /\ pc' = "delete_branches"
       ELSE /\ lines' = <<NoBranchesToDeleteLine>>
            /\ pc' = "deleted"
    /\ idx' = 1
    /\ UNCHANGED <<stash, github, command, bot, stash_projects,
                   branches_to_delete, branches_fetched, branch_text, confirm, force, github_organizations,
                   user_settings, requests,
                   plans, has_prs, github_branch_text, futures, org_pos, collected,
                   from_branch, plans_and_commits, shown, raised, calls>>

\* lines 670 and 680
NuclearBombLine(plan) ==
    Line("nuclear_bomb", plan.slug,
         << <<IF plan.comes_from_github THEN "GitHub" ELSE "Stash">>, <<plan.project>> >>,
         0, NoLink)

\* lines 672-676: the pull request is fetched and declined with the version
\* the plan holds; nothing is declined for a plan without pull requests
DeclineCalls(plan) ==
    IF Len(plan.pull_requests) > 0
    THEN <<Call("stash", "fetch_pull_request", plan.project, plan.slug, <<>>,
                plan.pull_requests[1].id),
           Call("stash", "decline", plan.project, plan.slug,
                plan.pull_requests[1].version, plan.pull_requests[1].id)>>
    ELSE <<>>

\* StashPullRequest.decline: the pull request is no longer open
SetDeclined(provider, plan) ==
    IF Len(plan.pull_requests) > 0
    THEN [provider EXCEPT ![StashRepoIndex(plan.project, plan.slug)]
                              .pr_state[plan.pull_requests[1].id] = "DECLINED"]
    ELSE provider

\* lines 663-681: one iteration of the loop of delete_branches; a provider
\* accepts each call or answers with an error, which ends the run (the
\* error of the flat provider as CheckError, lines 110-125); the
\* hierarchical provider is given the display_id of the branch and is taken
\* to find the branch by it
DeleteBranchesStep ==
    /\ pc = "delete_branches"
    /\ raised.type = "none"
    /\ idx <= Len(branches_to_delete)
    /\ LET plan == branches_to_delete[idx]
           name == plan.branches[1].display_id
           done == /\ lines' = Append(lines, NuclearBombLine(plan))
                   /\ idx' = idx + 1
                   /\ UNCHANGED raised
       IN  IF plan.comes_from_github
           THEN /\ calls' = Append(calls, Call("github", "delete_branch", plan.project,
                                               plan.slug, name, 0))
                /\ \/ /\ github' = [github EXCEPT
                             ![GithubRepoIndex(plan.project, plan.slug)].branches =
                                 SelectSeq(@, LAMBDA b : b.name # name)]
                      /\ done
                   \/ /\ raised' = CheckError(<<Line("error_deleting_branch", plan.slug,
                                                     <<name>>, 0, NoLink)>>)
                      /\ UNCHANGED <<github, lines, idx>>
                /\ UNCHANGED stash
           ELSE /\ \/ /\ Len(plan.pull_requests) > 0
                      /\ calls' = calls \o DeclineCalls(plan)
                      /\ raised' = Exception("ProviderError")
                      /\ UNCHANGED <<stash, lines, idx>>
                   \/ /\ calls' = calls \o DeclineCalls(plan)
                                   \o <<Call("stash", "delete_branch", plan.project,
                                              plan.slug, name, 0)>>
                      /\ \/ /\ stash' = [SetDeclined(stash, plan) EXCEPT
                                     ![StashRepoIndex(plan.project, plan.slug)].branches =
                                         SelectSeq(@, LAMBDA b : b.displayId # name)]
                            /\ done
                         \/ /\ stash' = SetDeclined(stash, plan)
                            /\ raised' = Exception("ProviderError")
                            /\ UNCHANGED <<lines, idx>>
                /\ UNCHANGED github
    /\ UNCHANGED <<command, bot, stash_projects,
                   branches_to_delete, branches_fetched, branch_text, confirm, force, github_organizations, user_settings, requests, pc,
                   plans, has_prs, github_branch_text, futures, org_pos, collected,
                   from_branch, plans_and_commits, shown>>

\* line 663: the loop has gone over every plan
DeleteBranchesEnd ==
    /\ pc = "delete_branches"
    /\ raised.type = "none"
    /\ idx > Len(branches_to_delete)
    /\ pc' = "deleted"
    /\ UNCHANGED <<stash, github, command, bot, stash_projects,
                   branches_to_delete, branches_fetched, branch_text, confirm, force, github_organizations,
                   user_settings, requests,
                   plans, has_prs, github_branch_text, futures, org_pos, collected,
                   from_branch, plans_and_commits, idx, shown, lines, raised, calls>>

DeleteNext ==
    \/ CreatePlansStash
    \/ Submit
    \/ \E f \in DOMAIN futures : TaskDone(f)
    \/ \E f \in DOMAIN futures : Collect(f)
    \/ NextOrganization
    \/ CreatePlansEnd
    \/ ObtainBranchesToDelete
    \/ YieldCheckError
    \/ DeleteBranchesStart
    \/ DeleteBranchesStep
    \/ DeleteBranchesEnd

SpecDelete == DeleteInit /\ [][DeleteNext]_vars

(***************************************************************************)
(* GithubAPI.fetch_branches and the answers of the provider                *)
(***************************************************************************)
\* The status of the provider's answer to repo.get_branch(name) or
\* repo.get_branches(): 200, or the status of the GithubException raised.
\* A branch that exists is found or the request fails for another reason; a
\* branch that does not exist is answered with 404 or the request fails for
\* another reason.
GithubStatuses(i, branch_name) ==
    IF branch_name = <<>> \/ \E k \in DOMAIN github[i].branches :
                                 github[i].branches[k].name = branch_name
    THEN {200, 403, 500}
    ELSE {404, 403, 500}

\* A lookup that answers every provider error with the empty list.
FetchBranchesNeverRaises(status) == FALSE

\* lines 100-108: `except GithubException as e: if e.status == 404: return []
\* else: raise`; line 98 has no try block
FetchBranchesRaises(status) == status \notin {200, 404}

\* lines 96-108 for the answer `status` of the provider
FetchBranchesResult(i, branch_name, status) ==
    IF status = 200
    THEN IF branch_name = <<>>
         THEN github[i].branches
         ELSE <<CHOOSE b \in Range(github[i].branches) : b.name = branch_name>>
    ELSE <<>>

FetchNames == {<<>>, A, AB, M, D}

FetchInit ==
    /\ github_organizations = <<"OA">>
    /\ \E g1 \in GithubProfilesFirst, g2 \in GithubProfilesSecond :
           github = <<MkGithubRepo(1, g1), MkGithubRepo(2, g2),
                      MkGithubRepo(3, SP(<<AB>>, <<>>, Commits(0), TRUE, TRUE))>>
    /\ stash = <<MkStashRepo(1, SP(<<>>, <<>>, Commits(0), TRUE, FALSE)),
                 MkStashRepo(2, SP(<<>>, <<>>, Commits(0), TRUE, FALSE))>>
    /\ command = "fetch_branches"
    /\ bot = NoBot
    /\ stash_projects = StashProjects
    /\ branches_to_delete = <<>>
    /\ branches_fetched = <<>>
    /\ branch_text = <<>>
    /\ confirm = FALSE
    /\ force = FALSE
    /\ pc = "fetch_branches"
    /\ plans = <<>>
    /\ has_prs = FALSE
    /\ github_branch_text = <<>>
    /\ futures = <<>>
    /\ org_pos = 1
    /\ collected = {}
    /\ from_branch = <<>>
    /\ plans_and_commits = <<>>
    /\ idx = 1
    /\ shown = {}
    /\ lines = <<>>
    /\ raised = NoException
    /\ calls = <<>>
    /\ user_settings = NoUserSettings
    /\ requests = <<>>

\* lines 80-108: one call of fetch_branches; `calls` keeps the call with the
\* status of the provider's answer, `branches_fetched` the list returned
FetchBranches ==
    /\ command = "fetch_branches"
    /\ \E i \in DOMAIN github, branch_name \in FetchNames :
       \E status \in GithubStatuses(i, branch_name) :
           /\ calls' = <<Call("github", "fetch_branches", github[i].org, github[i].name,
                              branch_name, status)>>
           /\ IF FetchBranchesRaises(status)
              THEN /\ raised' = Exception("GithubException")
                   /\ branches_fetched' = <<>>
              ELSE /\ raised' = NoException
                   /\ branches_fetched' = FetchBranchesResult(i, branch_name, status)
    /\ UNCHANGED <<stash, github, command, bot, stash_projects,
                   branches_to_delete, branch_text, confirm, force, github_organizations, user_settings, requests, pc,
                   plans, has_prs, github_branch_text, futures, org_pos, collected,
                   from_branch, plans_and_commits, idx, shown, lines>>

FetchNext == FetchBranches

SpecFetch == FetchInit /\ [][FetchNext]_vars

(***************************************************************************)
(* The callers: main() and the commands of StashBot                        *)
(***************************************************************************)
\* `bot` holds the caller ("main", "merge" or "delete-branch"); whether the
\* actor's settings have a token and a github_token; config["STASH_PROJECTS"]
\* ("unset" for None, "empty" for [], "set" for the projects); the actor's
\* setting "delete-branches" (the str "" of line 786, or a dict, which has
\* the branch name as a key or not, with the plans kept under it); the answers given so far, each a list of
\* lines; the value main() returned (-1 when none); and the type of the
\* exception that left the caller ("none" when none).
BotProfilesStash ==
    {SP(<<>>, <<>>, Commits(0), TRUE, FALSE),
     SP(<<A>>, <<M>>, Commits(1), TRUE, FALSE),
     SP(<<A>>, <<>>, Commits(1), TRUE, FALSE),
     SP(<<A, AB>>, <<M>>, Commits(1), TRUE, FALSE)}

BotProfilesGithub ==
    {SP(<<>>, <<>>, Commits(0), TRUE, FALSE),
     SP(<<A>>, <<M>>, Commits(1), TRUE, FALSE),
     SP(<<A>>, <<D>>, Commits(1), TRUE, FALSE)}

\* lines 739 and 786: without stored settings for the actor,
\* "delete-branches" is the empty str
NoDeleteBranches == [type |-> "str", has_branch |-> FALSE, plans |-> <<>>]

BotInit ==
    /\ github_organizations = <<"OA">>
    /\ \E s1 \in BotProfilesStash, s2 \in GithubProfilesOther :
           stash = <<MkStashRepo(1, s1), MkStashRepo(2, s2)>>
    /\ \E g1 \in BotProfilesGithub :
           github = <<MkGithubRepo(1, g1),
                      MkGithubRepo(2, SP(<<>>, <<>>, Commits(0), TRUE, FALSE)),
                      MkGithubRepo(3, SP(<<>>, <<>>, Commits(0), TRUE, FALSE))>>
    /\ command = "none"
    /\ \/ /\ bot = [NoBot EXCEPT !.caller = "main"]
          /\ confirm \in BOOLEAN
          /\ force \in BOOLEAN
       \/ /\ \E t \in BOOLEAN, g \in BOOLEAN, c \in {"unset", "empty", "set"} :
                 bot = [NoBot EXCEPT !.caller = "merge", !.token = t,
                                     !.github_token = g, !.config = c]
          /\ confirm = FALSE
          /\ force \in BOOLEAN
       \/ /\ \E t \in BOOLEAN, g \in BOOLEAN, c \in {"unset", "empty", "set"} :
                 bot = [NoBot EXCEPT !.caller = "delete-branch", !.token = t,
                                     !.github_token = g, !.config = c]
          /\ confirm = FALSE
          /\ force = FALSE
    /\ stash_projects = StashProjects
    /\ branches_to_delete = <<>>
    /\ branches_fetched = <<>>
    /\ branch_text = A
    /\ pc = "command"
    /\ plans = <<>>
    /\ has_prs = FALSE
    /\ github_branch_text = <<>>
    /\ futures = <<>>
    /\ org_pos = 1
    /\ collected = {}
    /\ from_branch = <<>>
    /\ plans_and_commits = <<>>
    /\ idx = 1
    /\ shown = {}
    /\ lines = <<>>
    /\ raised = NoException
    /\ calls = <<>>
    /\ user_settings = NoUserSettings
    /\ requests = <<>>

\* GithubAPI.__init__, lines 59-75: the organizations and their repositories
\* are asked of the provider
GithubInitCalls(organizations) ==
    [k \in 1..Len(organizations) |->
        Call("github", "get_organization", organizations[k], "", <<>>, 0)]
    \o [k \in 1..Len(organizations) |->
           Call("github", "get_repos", organizations[k], "", <<>>, 0)]

\* lines 758-770 and 828-840: what stash_token(msg, []) and
\* github_token(msg, []) answer when the token is not set
NoTokenLine == Line("stash_token_not_configured", "", <<>>, 0, NoLink)
NoGithubTokenLine == Line("github_token_not_configured", "", <<>>, 0, NoLink)

\* line 864
NotConfiguredLine == Line("stash_projects_not_configured", "", <<>>, 0, NoLink)

\* line 867
WorkingLine == Line("working", "", <<>>, 0, NoLink)

\* lines 954-968: main() calls merge() with the options of the command line
Main ==
    /\ pc = "command"
    /\ bot.caller = "main"
    /\ command' = "merge"
    /\ calls' = GithubInitCalls(github_organizations)
    /\ pc' = "create_plans"
    /\ UNCHANGED <<stash, github, bot, stash_projects,
                   branches_to_delete, branches_fetched, branch_text, confirm, force,
                   github_organizations, user_settings, requests,
                   plans, has_prs, github_branch_text, futures, org_pos, collected,
                   from_branch, plans_and_commits, idx, shown, lines, raised>>

\* lines 850-882: the merge command up to its call of merge(), which starts
\* by making the two API objects (lines 587-592)
StashBotMerge ==
    /\ pc = "command"
    /\ bot.caller = "merge"
    /\ IF ~bot.token
       THEN /\ bot' = [bot EXCEPT !.answers = <<<<NoTokenLine>>>>]
            /\ pc' = "returned"
            /\ UNCHANGED <<command, confirm, stash_projects, calls>>
       ELSE IF ~bot.github_token
       THEN /\ bot' = [bot EXCEPT !.answers = <<<<NoGithubTokenLine>>>>]
            /\ pc' = "returned"
            /\ UNCHANGED <<command, confirm, stash_projects, calls>>
       ELSE IF bot.config \in {"unset", "empty"}
       THEN /\ bot' = [bot EXCEPT !.answers = <<<<NotConfiguredLine>>>>]
            /\ pc' = "returned"
            /\ UNCHANGED <<command, confirm, stash_projects, calls>>
       ELSE /\ bot' = [bot EXCEPT !.answers = <<<<WorkingLine>>>>]
            /\ command' = "merge"
            /\ confirm' = TRUE
            /\ stash_projects' = StashProjects
            /\ calls' = GithubInitCalls(github_organizations)
            /\ pc' = "create_plans"
    /\ UNCHANGED <<stash, github,
                   branches_to_delete, branches_fetched, branch_text, force,
                   github_organizations, user_settings, requests,
                   plans, has_prs, github_branch_text, futures, org_pos, collected,
                   from_branch, plans_and_commits, idx, shown, lines, raised>>

\* line 805: branch_to_delete not in settings["delete-branches"]; no text is
\* in the empty str
NotInDeleteBranches(setting) == setting.type = "str" \/ ~setting.has_branch

\* lines 777-812 and 819-824: the delete-branch command up to its call of
\* obtain_branches_to_delete (with a new list) or delete_branches; with
\* STASH_PROJECTS unset create_plans raises TypeError at line 228, before
\* any call
StashBotDeleteBranch ==
    /\ pc = "command"
    /\ bot.caller = "delete-branch"
    /\ IF ~bot.token
       THEN /\ bot' = [bot EXCEPT !.answers = <<<<NoTokenLine>>>>]
            /\ pc' = "returned"
            /\ UNCHANGED <<command, stash_projects, branches_to_delete, calls, raised>>
       ELSE IF ~bot.github_token
       THEN /\ bot' = [bot EXCEPT !.answers = <<<<NoGithubTokenLine>>>>]
            /\ pc' = "returned"
            /\ UNCHANGED <<command, stash_projects, branches_to_delete, calls, raised>>
       ELSE /\ calls' = GithubInitCalls(github_organizations)
            /\ command' = "delete"
            /\ stash_projects' = (IF bot.config = "set" THEN StashProjects ELSE <<>>)
            /\ IF NotInDeleteBranches(bot.delete_branches)
               THEN /\ branches_to_delete' = <<>>
                    /\ pc' = "create_plans"
                    /\ raised' = (IF bot.config = "unset" THEN Exception("TypeError")
                                                          ELSE NoException)
               ELSE /\ branches_to_delete' = bot.delete_branches.plans
                    /\ pc' = "to_confirm"
                    /\ UNCHANGED raised
            /\ UNCHANGED bot
    /\ UNCHANGED <<stash, github,
                   branches_fetched, branch_text, confirm, force, github_organizations,
                   user_settings, requests,
                   plans, has_prs, github_branch_text, futures, org_pos, collected,
                   from_branch, plans_and_commits, idx, shown, lines>>

\* An except clause that catches whatever is raised.
CatchesAll(type) == TRUE

\* lines 883 and 971: except CheckError
Catches(type) == type = "CheckError"

\* lines 883-885 and 969-975: merge() has ended, with its last line or with
\* an exception; the lines, or those of the CheckError, are the answer of the
\* command and what main() prints
MergeReturns ==
    /\ bot.caller \in {"main", "merge"}
    /\ command = "merge"
    /\ pc # "returned"
    /\ pc = "done" \/ raised.type # "none"
    /\ LET report == IF raised.type = "none" THEN lines ELSE raised.lines
       IN  IF raised.type = "none" \/ Catches(raised.type)
           THEN bot' = [bot EXCEPT
                           !.answers = Append(@, report),
                           !.result = IF bot.caller = "main"
                                      THEN (IF raised.type = "none" THEN 0 ELSE 4)
                                      ELSE @]
           ELSE bot' = [bot EXCEPT !.escaped = raised.type]
    /\ pc' = "returned"
    /\ UNCHANGED <<stash, github, command, stash_projects,
                   branches_to_delete, branches_fetched, branch_text, confirm, force,
                   github_organizations, user_settings, requests,
                   plans, has_prs, github_branch_text, futures, org_pos, collected,
                   from_branch, plans_and_commits, idx, shown, lines, raised, calls>>

\* lines 817-818 and 825: obtain_branches_to_delete has ended; the list is
\* stored in settings["delete-branches"] under the branch name, which a str
\* refuses with TypeError, the settings are saved and the lines answered
DeleteBranchReturns ==
    /\ bot.caller = "delete-branch"
    /\ command = "delete"
    /\ pc \in {"to_confirm", "done"} \/ (raised.type # "none" /\ raised.type # "CheckError")
    /\ pc # "returned"
    /\ IF raised.type # "none"
       THEN bot' = [bot EXCEPT !.escaped = raised.type]
       ELSE IF bot.delete_branches.type = "str"
       THEN bot' = [bot EXCEPT !.escaped = "TypeError"]
       ELSE bot' = [bot EXCEPT !.delete_branches.has_branch = TRUE,
                               !.delete_branches.plans = branches_to_delete,
                               !.answers = Append(@, lines)]
    /\ pc' = "returned"
    /\ UNCHANGED <<stash, github, command, stash_projects,
                   branches_to_delete, branches_fetched, branch_text, confirm, force,
                   github_organizations, user_settings, requests,
                   plans, has_prs, github_branch_text, futures, org_pos, collected,
                   from_branch, plans_and_commits, idx, shown, lines, raised, calls>>

BotNext ==
    \/ Main
    \/ StashBotMerge
    \/ StashBotDeleteBranch
    \/ CreatePlansStash
    \/ Submit
    \/ \E f \in DOMAIN futures : TaskDone(f)
    \/ \E f \in DOMAIN futures : Collect(f)
    \/ NextOrganization
    \/ CreatePlansEnd
    \/ EnsureTextMatchesUniqueBranch
    \/ EnsureUniquePullRequests
    \/ EnsureHasPullRequest
    \/ EnsurePullRequestsTargetSameBranch
    \/ GetCommitsAboutToBeMergedByPullRequests
    \/ EnsureNoConflicts
    \/ YieldHeader
    \/ MergeLoop
    \/ YieldNoChanges
    \/ DeleteLoop
    \/ YieldSummary
    \/ ObtainBranchesToDelete
    \/ YieldCheckError
    \/ MergeReturns
    \/ DeleteBranchReturns

SpecBot == BotInit /\ [][BotNext]_vars

(***************************************************************************)
(* Properties                                                              *)
(***************************************************************************)
DiscoveryPositions == {"create_plans", "submit", "as_completed"}

ValidationStages ==
    {"ensure_text_matches_unique_branch", "ensure_unique_pull_requests",
     "ensure_has_pull_request", "ensure_pull_requests_target_same_branch",
     "get_commits", "ensure_no_conflicts"}

SideEffecting == {"merge", "decline", "delete_branch"}

SideEffects(cs) == SelectSeq(cs, LAMBDA c : c.op \in SideEffecting)

\* C1: whenever create_plans or a validation stage of merge() has raised
\* CheckError, no merge, decline or delete_branch call has been issued on
\* any repository of either provider.
C1_CheckErrorMeansNoSideEffect ==
    (raised.type = "CheckError" /\ pc \in DiscoveryPositions \cup ValidationStages)
        => SideEffects(calls) = <<>>

\* A conflict was diagnosed after the pull request was fetched again.
C1_Witness ==
    /\ raised.type = "CheckError"
    /\ pc = "ensure_no_conflicts"
    /\ \E k \in DOMAIN calls : calls[k].op = "fetch_pull_request"
    /\ confirm

\* C2: every step of a run with confirm=false leaves the state of both
\* providers as it was and adds no merge or delete_branch call, whatever the
\* provider state and the value of force.
C2_DryRunChangesNothing ==
    [][~confirm => /\ stash' = stash
                   /\ github' = github
                   /\ SideEffects(calls') = <<>>]_vars

\* A dry run of a forced merge that reported merged pull requests.
C2_Witness ==
    /\ ~confirm
    /\ force
    /\ pc = "done"
    /\ plans_and_commits # <<>>
    /\ \E k \in DOMAIN plans : plans[k].comes_from_github

\* The plans at the given positions, in plan-list order.
PlansWhere(keep(_)) == SelectSeq(Indices(plans), LAMBDA k : keep(plans[k]))

\* What the report of a run is expected to hold once validation passed: the
\* header, a checkmark line per (plan, commits) pair, a 'no changes' line
\* per plan whose slug has no checkmark line, and the summary.
ExpectedReport ==
    LET merged == {plans[plans_and_commits[k][1]].slug : k \in DOMAIN plans_and_commits}
        rest == PlansWhere(LAMBDA plan : plan.slug \notin merged)
    IN  <<Line("merged_into", "", <<from_branch>>, 0, NoLink)>>
        \o [k \in 1..Len(plans_and_commits) |->
               Line("white_check_mark", plans[plans_and_commits[k][1]].slug,
                    <<StripRefsHeads(plans[plans_and_commits[k][1]].to_branch)>>,
                    plans_and_commits[k][2], NoLink)]
        \o [k \in 1..Len(rest) |-> Line("no_changes", plans[rest[k]].slug, <<>>, 0, NoLink)]
        \o <<Line("branch_deleted_from", "",
                  [k \in 1..Len(plans) |-> <<plans[k].slug>>], 0, NoLink)>>

\* A provider answered a merge or a delete_branch call with an error.
ProviderRefused ==
    \/ raised.type = "ProviderError"
    \/ raised.type = "CheckError" /\ pc = "delete_loop"

\* C3: for the same provider state, branch text and force, once validation
\* passed and no provider call is refused, the run with confirm=true yields
\* the expected report and the run with confirm=false yields the same lines
\* followed by exactly one dry-run line, flat plans included.
C3_DryRunReportIsConfirmedReportPlusMarker ==
    (pc \notin DiscoveryPositions \cup ValidationStages /\ ~ProviderRefused)
        => /\ raised.type = "none"
           /\ pc = "done" =>
                  lines = ExpectedReport \o (IF confirm THEN <<>> ELSE <<DryRunLine>>)

\* The texts the hierarchical provider matches in more than one branch of a
\* repository.
AmbiguousInSomeRepository ==
    \E i \in DOMAIN stash : Len(StashFetchBranches(i, branch_text)) > 1

Finished == pc = "done" \/ raised.type # "none"

\* C4 as stated: whenever the branch text matches more than one branch in a
\* repository, merge() ends with the ambiguous-branch diagnostic.
C4_AmbiguousTextAlwaysDiagnosed ==
    (Finished /\ AmbiguousInSomeRepository)
        => /\ raised.type = "CheckError"
           /\ raised.lines[1].kind = "more_than_one_branch_matches"

\* C4, amended: once create_plans has returned its plans and some plan has
\* more than one matched branch, merge() goes no further than
\* ensure_text_matches_unique_branch and ends there with the
\* ambiguous-branch diagnostic: the header naming the text, then one line
\* per plan with more than one matched branch, in plan order, naming all
\* display names matched in that plan, then the closing hint.
C4_AmbiguousPlansDiagnosed ==
    LET bad == PlansWhere(LAMBDA plan : Len(plan.branches) > 1)
    IN  (pc \notin DiscoveryPositions /\ bad # <<>>)
            => /\ pc = "ensure_text_matches_unique_branch"
               /\ raised.type \in {"none", "CheckError"}
               /\ raised.type = "CheckError" =>
                      /\ Len(raised.lines) = Len(bad) + 2
                      /\ raised.lines[1].kind = "more_than_one_branch_matches"
                      /\ raised.lines[1].names = <<branch_text>>
                      /\ \A j \in 1..Len(bad) :
                             /\ raised.lines[j + 1].kind = "matched_branches"
                             /\ raised.lines[j + 1].slug = plans[bad[j]].slug
                             /\ raised.lines[j + 1].names =
                                    [b \in 1..Len(plans[bad[j]].branches) |->
                                        plans[bad[j]].branches[b].display_id]
                             /\ Len(raised.lines[j + 1].names) > 1
                      /\ raised.lines[Len(bad) + 2].kind = "use_a_more_complete_text"

\* Two plans matched two branches each and the diagnostic was raised.
C4_Witness ==
    /\ pc = "ensure_text_matches_unique_branch"
    /\ raised.type = "CheckError"
    /\ Len(raised.lines) = 4
    /\ Len(raised.lines[3].names) = 2

AfterStage(stage) ==
    CASE stage = "ensure_pull_requests_target_same_branch" ->
             {"get_commits", "ensure_no_conflicts", "yield_header", "merge_loop",
              "delete_loop", "done"}
      [] stage = "get_commits" ->
             {"ensure_no_conflicts", "yield_header", "merge_loop", "delete_loop", "done"}
      [] stage = "ensure_no_conflicts" ->
             {"yield_header", "merge_loop", "delete_loop", "done"}

\* Two plans with a pull request have different to_branch values.
DivergentTargets ==
    \E j, k \in DOMAIN plans :
        /\ plans[j].pull_requests # <<>>
        /\ plans[k].pull_requests # <<>>
        /\ plans[j].to_branch # plans[k].to_branch

\* The target a pull request was opened against, as the provider shows it.
TargetShown(plan) ==
    IF plan.comes_from_github
    THEN plan.pull_requests[1].base
    ELSE plan.pull_requests[1].toRef

\* The pull request of a plan is merged in the provider.
IsMerged(plan) ==
    IF plan.comes_from_github
    THEN github[GithubRepoIndex(plan.project, plan.slug)]
             .pr_state[plan.pull_requests[1].number] = "MERGED"
    ELSE stash[StashRepoIndex(plan.project, plan.slug)]
             .pr_state[plan.pull_requests[1].id] = "MERGED"

\* C5: when the stages before it passed and two plans with a pull request
\* have different to_branch values, then with force=false merge() stops at
\* ensure_pull_requests_target_same_branch with the diagnostic that has one
\* line per plan with a pull request, in plan order, holding its slug, its
\* pull request link and its target, and that ends with the `--force` hint;
\* with force=true that stage raises nothing, and every pull request the
\* merge loop has handled was reported, and with confirm merged, into the
\* to_branch of its own plan.
C5_DivergentTargets ==
    LET with_pr == PlansWhere(LAMBDA plan : plan.pull_requests # <<>>)
        at_stage == pc = "ensure_pull_requests_target_same_branch"
        later == pc \in AfterStage("ensure_pull_requests_target_same_branch")
    IN  ((at_stage \/ later) /\ DivergentTargets)
            => /\ ~force =>
                      /\ at_stage
                      /\ raised.type \in {"none", "CheckError"}
                      /\ raised.type = "CheckError" =>
                             /\ Len(raised.lines) = Len(with_pr) + 3
                             /\ raised.lines[1].kind = "prs_have_different_targets"
                             /\ \A j \in 1..Len(with_pr) :
                                    /\ raised.lines[j + 1].slug = plans[with_pr[j]].slug
                                    /\ raised.lines[j + 1].names =
                                           <<TargetShown(plans[with_pr[j]])>>
                                    /\ raised.lines[j + 1].links =
                                           <<PrLink(plans[with_pr[j]],
                                                    plans[with_pr[j]].pull_requests[1])>>
                             /\ raised.lines[Len(with_pr) + 3].kind = "pass_force"
               /\ force =>
                      /\ at_stage => raised.type = "none"
                      /\ pc \in {"merge_loop", "delete_loop", "done"} =>
                             \A k \in DOMAIN plans_and_commits :
                                 LET plan == plans[plans_and_commits[k][1]]
                                     handled == pc # "merge_loop" \/ k < idx
                                 IN  /\ handled =>
                                         /\ lines[k + 1].kind = "white_check_mark"
                                         /\ lines[k + 1].slug = plan.slug
                                         /\ RefsHeads(lines[k + 1].names[1]) = plan.to_branch
                                         /\ StripRefsHeads(TargetShown(plan))
                                                = lines[k + 1].names[1]
                                     /\ IsMerged(plan) <=> (handled /\ confirm)

\* A forced, confirmed merge of two pull requests with different targets
\* ran to its end.
C5_Witness ==
    /\ force
    /\ confirm
    /\ DivergentTargets
    /\ pc = "done"
    /\ Len(plans_and_commits) = 2

\* The plans with commits between from_branch and their chosen target and
\* without a pull request, in plan order.
CommitsWithoutPullRequest ==
    PlansWhere(LAMBDA plan :
        /\ plan.pull_requests = <<>>
        /\ CommitsOf(plan, from_branch, ToBranch(plan, DefaultBranch(plans))).n > 0)

DiffNotFound ==
    PlansWhere(LAMBDA plan :
        /\ ~plan.comes_from_github
        /\ \/ stash[StashRepoIndex(plan.project, plan.slug)].diff.status = "NotFound"
           \/ \A b \in DOMAIN plan.branches : plan.branches[b].display_id # from_branch)

\* C7: a NotFound of the hierarchical provider's commit diff never ends the
\* run and never yields an error line; the plan is handled as a plan with
\* zero commits: it is not in the (plan, commits) result, it has no line in
\* the missing-PR diagnostic, and the report has a 'no changes' line for it.
C7_NotFoundIsZeroCommits ==
    \A j \in DOMAIN DiffNotFound :
        LET k == DiffNotFound[j]
        IN  /\ pc = "get_commits" =>
                /\ raised.type \in {"none", "CheckError"}
                /\ raised.type = "CheckError" =>
                       k \notin Range(CommitsWithoutPullRequest)
            /\ pc \in AfterStage("get_commits") =>
                   \A m \in DOMAIN plans_and_commits : plans_and_commits[m][1] # k
            /\ pc = "done" =>
                   /\ \E m \in DOMAIN lines :
                          /\ lines[m].kind = "no_changes"
                          /\ lines[m].slug = plans[k].slug
                   /\ Cardinality({m \in DOMAIN lines : lines[m].kind = "no_changes"})
                          >= Len(DiffNotFound)

\* The (plan, commits) pairs whose pull request is not mergeable: the flag of
\* the repository for a hierarchical plan, the flag of the pull request
\* object of the plan for a flat one.
NotMergeable ==
    SelectSeq(plans_and_commits, LAMBDA pair :
        LET plan == plans[pair[1]]
        IN  IF plan.comes_from_github
            THEN ~plan.pull_requests[1].mergeable
            ELSE ~stash[StashRepoIndex(plan.project, plan.slug)].can_merge)

\* C8: when the earlier stages passed and a plan with commits has a pull
\* request that is not mergeable, merge() stops at ensure_no_conflicts with
\* the conflicts diagnostic: one line, slug and pull request link, per such
\* plan, in order; no pull request is merged; and the stage has fetched by
\* id exactly the pull requests of the hierarchical plans with commits, and
\* none of a flat plan.
C8_ConflictsDiagnosed ==
    LET at_stage == pc = "ensure_no_conflicts"
        fetched == SelectSeq(calls, LAMBDA c : c.op = "fetch_pull_request")
        hierarchical == SelectSeq(plans_and_commits,
                                  LAMBDA pair : ~plans[pair[1]].comes_from_github)
    IN  ((at_stage \/ pc \in AfterStage("ensure_no_conflicts")) /\ NotMergeable # <<>>)
            => /\ at_stage
               /\ raised.type \in {"none", "CheckError"}
               /\ \A k \in DOMAIN calls : calls[k].op # "merge"
               /\ \A k \in DOMAIN plans_and_commits : ~IsMerged(plans[plans_and_commits[k][1]])
               /\ raised.type = "CheckError" =>
                      /\ Len(raised.lines) = Len(NotMergeable) + 2
                      /\ raised.lines[1].kind = "prs_have_problems"
                      /\ \A j \in 1..Len(NotMergeable) :
                             LET plan == plans[NotMergeable[j][1]]
                             IN  /\ raised.lines[j + 1].kind = "conflict"
                                 /\ raised.lines[j + 1].slug = plan.slug
                                 /\ raised.lines[j + 1].links =
                                        <<PrLink(plan, plan.pull_requests[1])>>
                      /\ raised.lines[Len(NotMergeable) + 2].kind = "fix_them"
                      /\ Len(fetched) = Len(hierarchical)
                      /\ \A j \in DOMAIN fetched :
                             LET plan == plans[hierarchical[j][1]]
                             IN  /\ fetched[j].api = "stash"
                                 /\ fetched[j].project = plan.project
                                 /\ fetched[j].slug = plan.slug
                                 /\ fetched[j].pr = plan.pull_requests[1].id

\* A hierarchical and a flat pull request were both found not mergeable.
C8_Witness ==
    /\ pc = "ensure_no_conflicts"
    /\ raised.type = "CheckError"
    /\ Len(raised.lines) = 4
    /\ \E k \in DOMAIN NotMergeable : plans[NotMergeable[k][1]].comes_from_github
    /\ \E k \in DOMAIN NotMergeable : ~plans[NotMergeable[k][1]].comes_from_github

\* C9: when every plan has exactly one matched branch and some plan has more
\* than one pull request, merge() goes no further than
\* ensure_unique_pull_requests and ends there with the duplicate-PR
\* diagnostic: one line per plan with more than one pull request, in plan
\* order, listing the links of all pull requests of that plan.
C9_DuplicatePullRequestsDiagnosed ==
    LET bad == PlansWhere(LAMBDA plan : Len(plan.pull_requests) > 1)
    IN  (/\ pc \notin DiscoveryPositions
         /\ \A k \in DOMAIN plans : Len(plans[k].branches) = 1
         /\ bad # <<>>)
            => /\ pc \in {"ensure_text_matches_unique_branch", "ensure_unique_pull_requests"}
               /\ raised.type \in {"none", "CheckError"}
               /\ pc = "ensure_text_matches_unique_branch" => raised.type = "none"
               /\ raised.type = "CheckError" =>
                      /\ Len(raised.lines) = Len(bad) + 2
                      /\ raised.lines[1].kind = "multiples_prs_found"
                      /\ \A j \in 1..Len(bad) :
                             /\ raised.lines[j + 1].kind = "prs_of_plan"
                             /\ raised.lines[j + 1].slug = plans[bad[j]].slug
                             /\ raised.lines[j + 1].links =
                                    [m \in 1..Len(plans[bad[j]].pull_requests) |->
                                        PrLink(plans[bad[j]], plans[bad[j]].pull_requests[m])]
                             /\ Len(raised.lines[j + 1].links) > 1
                      /\ raised.lines[Len(bad) + 2].kind = "sort_that_mess_yourself"

\* Two plans had two pull requests each and the diagnostic was raised.
C9_Witness ==
    /\ pc = "ensure_unique_pull_requests"
    /\ raised.type = "CheckError"
    /\ Len(raised.lines) = 4

\* No repository of the searched projects and organizations has a branch
\* the search matches.
NoRepositoryMatches ==
    /\ \A i \in DOMAIN stash : StashFetchBranches(i, branch_text) = <<>>
    /\ \A i \in DOMAIN GithubRepos :
           GithubRepos[i].org \in Range(github_organizations) =>
               GithubFetchBranches(GithubRepos[i].org, GithubRepos[i].name, branch_text)
                   = <<>>

\* C10: create_plans ends in one of exactly three ways: with the 'could not
\* find any branch' error if and only if no repository of either provider
\* has a matching branch; otherwise with the 'No PRs are open' error if and
\* only if no plan has a pull request (merge() sets assure_has_prs);
\* otherwise by returning a non-empty plan list (looked at while the
\* validation stages run, the providers being as create_plans saw them).
C10_ThreeOutcomes ==
    LET failed == pc \in DiscoveryPositions /\ raised.type # "none"
        returned == pc \in ValidationStages
        kind == IF raised.type = "CheckError" THEN raised.lines[1].kind ELSE "none"
    IN  /\ failed => /\ raised.type = "CheckError"
                     /\ kind \in {"could_not_find_any_branch", "no_prs_are_open"}
                     /\ kind = "could_not_find_any_branch" <=> NoRepositoryMatches
                     /\ kind = "no_prs_are_open" =>
                            \A k \in DOMAIN plans : plans[k].pull_requests = <<>>
        /\ returned => /\ plans # <<>>
                       /\ ~NoRepositoryMatches
                       /\ \E k \in DOMAIN plans : plans[k].pull_requests # <<>>

\* The place of a position of merge() in the order of its body: the six
\* validation stages, then the report.
StageIndex(position) ==
    CASE position = "ensure_text_matches_unique_branch" -> 1
      [] position = "ensure_unique_pull_requests" -> 2
      [] position = "ensure_has_pull_request" -> 3
      [] position = "ensure_pull_requests_target_same_branch" -> 4
      [] position = "get_commits" -> 5
      [] position = "ensure_no_conflicts" -> 6
      [] OTHER -> 7

\* The condition each stage diagnoses, on the plans create_plans returned.
StageViolated(i) ==
    CASE i = 1 -> \E k \in DOMAIN plans : Len(plans[k].branches) > 1
      [] i = 2 -> \E k \in DOMAIN plans : Len(plans[k].pull_requests) > 1
      [] i = 3 -> \A k \in DOMAIN plans : plans[k].pull_requests = <<>>
      [] i = 4 -> ~force /\ DivergentTargets
      [] i = 5 -> CommitsWithoutPullRequest # <<>>
      [] i = 6 -> NotMergeable # <<>>

\* The first line of the diagnostic of each stage.
StageDiagnostic(i) ==
    CASE i = 1 -> "more_than_one_branch_matches"
      [] i = 2 -> "multiples_prs_found"
      [] i = 3 -> "no_pull_request_open"
      [] i = 4 -> "prs_have_different_targets"
      [] i = 5 -> "commits_but_no_prs"
      [] i = 6 -> "prs_have_problems"

CallsOf(op) == SelectSeq(calls, LAMBDA c : c.op = op)

ReportPositions == {"merge_loop", "delete_loop", "done"}

\* The number of (plan, commits) pairs the merge loop has gone through.
Handled == IF pc = "merge_loop" THEN idx - 1 ELSE Len(plans_and_commits)

\* C12: in a confirmed merge that passed validation the merge calls are those
\* of the (plan, commits) pairs handled so far, one each and in the order of
\* the pair list (one more when the provider has just refused a merge); the
\* k-th checkmark line is the line of the k-th pair and is there as soon as
\* its merge was accepted, before the next merge is issued; the merge call of
\* a hierarchical plan carries the version of the pull request data the plan
\* got at discovery, that of a flat plan no version; at the end of the loop
\* every pair's pull request is merged.
C12_MergesInPairOrder ==
    LET merges == CallsOf("merge")
    IN  (confirm /\ pc \in ReportPositions) =>
            /\ Len(merges) = Handled
                    + (IF pc = "merge_loop" /\ raised.type = "ProviderError" THEN 1 ELSE 0)
            /\ \A k \in DOMAIN merges :
                   LET plan == plans[plans_and_commits[k][1]]
                       pr == plan.pull_requests[1]
                   IN  /\ merges[k].project = plan.project
                       /\ merges[k].slug = plan.slug
                       /\ merges[k].api = (IF plan.comes_from_github THEN "github" ELSE "stash")
                       /\ merges[k].pr = (IF plan.comes_from_github THEN pr.number ELSE pr.id)
                       /\ merges[k].ref = (IF plan.comes_from_github THEN <<>> ELSE pr.version)
                       /\ ~plan.comes_from_github => merges[k].ref # <<>>
            /\ \A k \in 1..Handled :
                   LET plan == plans[plans_and_commits[k][1]]
                   IN  /\ lines[k + 1].kind = "white_check_mark"
                       /\ lines[k + 1].slug = plan.slug
                       /\ lines[k + 1].n = plans_and_commits[k][2]
                       /\ IsMerged(plan)
                       /\ Cardinality({m \in DOMAIN merges : merges[m] = MergeCall(plan)}) = 1
            /\ Cardinality({k \in DOMAIN lines : lines[k].kind = "white_check_mark"}) = Handled
            /\ \A k \in DOMAIN plans_and_commits :
                   k > Handled => ~IsMerged(plans[plans_and_commits[k][1]])

\* The branch a plan is left with after validation, as its provider names it
\* in delete_branch.
DeleteCall(plan) ==
    Call(IF plan.comes_from_github THEN "github" ELSE "stash", "delete_branch",
         plan.project, plan.slug,
         IF plan.comes_from_github THEN plan.branches[1].display_id
                                   ELSE plan.branches[1].id, 0)

\* C13: in a confirmed merge that passed validation and whose merges were all
\* accepted, the delete loop raises nothing unless a provider refuses a
\* deletion; it calls delete_branch once per discovered plan, in plan order,
\* on the single matched branch of the plan, hierarchical or flat, with or
\* without commits; and the finished run has exactly one summary line, the
\* last one, listing the slugs of all plans.
C13_EveryBranchDeletedOnce ==
    LET deletes == CallsOf("delete_branch")
        through == IF pc = "done" THEN Len(plans) ELSE idx - 1
    IN  (confirm /\ pc \in {"delete_loop", "done"} /\ ~ProviderRefused) =>
            /\ raised.type = "none"
            /\ Len(deletes) = through
            /\ \A k \in DOMAIN deletes :
                   /\ Len(plans[k].branches) = 1
                   /\ deletes[k] = DeleteCall(plans[k])
            /\ pc = "done" =>
                   /\ lines[Len(lines)] = SummaryLine(plans)
                   /\ Cardinality({k \in DOMAIN lines :
                                      lines[k].kind = "branch_deleted_from"}) = 1

\* C14: in the report of a run that went through every step, each plan has
\* exactly one line between the header and the summary, a checkmark line if
\* the plan is in a (plan, commits) pair and a 'no changes' line otherwise;
\* plans of the same slug have a line each.
C14_OneLinePerPlan ==
    LET last == IF confirm THEN Len(lines) ELSE Len(lines) - 1
    IN  pc = "done" =>
            /\ lines[1].kind = "merged_into"
            /\ lines[last].kind = "branch_deleted_from"
            /\ last - 2 = Len(plans)
            /\ \A k \in DOMAIN plans :
                   LET kind == IF \E j \in DOMAIN plans_and_commits :
                                      plans_and_commits[j][1] = k
                               THEN "white_check_mark" ELSE "no_changes"
                   IN  \E j \in 2..(last - 1) :
                           /\ lines[j].slug = plans[k].slug
                           /\ lines[j].kind = kind

\* The positions in the call sequence of the calls of an operation.
PositionsOf(op) == {k \in DOMAIN calls : calls[k].op = op}

\* C15: in a confirmed run every merge call precedes every delete_branch
\* call: no delete_branch call is followed by a merge call, so the branch of
\* a plan is deleted only after the merge of its pull request, and each step
\* that issues a delete_branch call is taken with all (plan, commits) pairs
\* merged.
C15_MergesBeforeDeletes ==
    confirm =>
        /\ \A m \in PositionsOf("merge") : \A d \in PositionsOf("delete_branch") : m < d
        /\ PositionsOf("delete_branch") # {} =>
               /\ Len(CallsOf("merge")) = Len(plans_and_commits)
               /\ \A k \in DOMAIN plans_and_commits :
                      \E m \in PositionsOf("merge") :
                          calls[m] = MergeCall(plans[plans_and_commits[k][1]])

\* A pull request was merged and the branch of its plan deleted afterwards.
C15_Witness ==
    /\ confirm
    /\ \E m \in PositionsOf("merge") : \E d \in PositionsOf("delete_branch") :
           /\ calls[m].project = calls[d].project
           /\ calls[m].slug = calls[d].slug
           /\ m < d
    /\ Len(CallsOf("delete_branch")) = 2

\* The (iteration, task) pairs of the flat half for a lookup name: in the
\* iteration of the o-th organization as_completed yields the task of every
\* repository of the organizations up to the o-th, whatever the order of
\* completion; the pairs whose task found a branch make a plan.
FlatYields(text) ==
    {y \in (DOMAIN github_organizations) \X (DOMAIN GithubRepos) :
        /\ \E j \in 1..y[1] : GithubRepos[y[2]].org = github_organizations[j]
        /\ GithubFetchBranches(GithubRepos[y[2]].org, GithubRepos[y[2]].name, text) # <<>>}

\* The plan of a pair of FlatYields.
FlatYieldPlan(y, text) ==
    GithubPlan(github_organizations[y[1]], GithubRepos[y[2]].name,
               GithubFetchBranches(GithubRepos[y[2]].org, GithubRepos[y[2]].name, text),
               text)

\* A yielded task names a repository the organization of the iteration does
\* not have.
FlatYieldUnknown(text) ==
    \E y \in FlatYields(text) :
        GithubRepoIndex(github_organizations[y[1]], GithubRepos[y[2]].name) = 0

\* C16: what create_plans returns is a function of its arguments and of the
\* provider state, whatever the order in which the flat tasks complete: the
\* hierarchical plans are the plans of the repositories in the order of the
\* projects and of their repositories, followed by the flat plans, which are
\* as a collection (each plan as many times) the plans of the yielded tasks;
\* and whether it raises instead of returning is fixed by the same data.
\* (merge() is at its first validation stage when create_plans has returned.)
C16_DiscoveryIsDeterministic ==
    pc \in DiscoveryPositions \cup {"ensure_text_matches_unique_branch"} =>
        LET hierarchical == StashPlans(StashProjects, branch_text, ExactlyBranchName)
            text == GithubBranchText(hierarchical, branch_text)
            flat == SubSeq(plans, Len(hierarchical) + 1, Len(plans))
            yields == FlatYields(text)
            plan_of == [y \in yields |-> FlatYieldPlan(y, text)]
        IN  /\ pc = "ensure_text_matches_unique_branch" =>
                   /\ SubSeq(plans, 1, Len(hierarchical)) = hierarchical
                   /\ \A k \in DOMAIN flat : flat[k].comes_from_github
                   /\ Len(flat) = Cardinality(yields)
                   /\ \A y \in yields :
                          Cardinality({k \in DOMAIN flat : flat[k] = plan_of[y]})
                              = Cardinality({z \in yields : plan_of[z] = plan_of[y]})
                   /\ ~FlatYieldUnknown(text)
            /\ raised.type = "KeyError" => FlatYieldUnknown(text)
            /\ raised.type = "CheckError" => ~FlatYieldUnknown(text)

\* create_plans returned two flat plans in the reverse of the order in which
\* their tasks were submitted.
C16_Witness ==
    /\ pc = "ensure_text_matches_unique_branch"
    /\ \E k \in DOMAIN plans :
           /\ k < Len(plans)
           /\ plans[k].comes_from_github
           /\ plans[k].slug = "r2"
           /\ plans[k + 1].slug = "r1"
           /\ plans[k + 1].project = plans[k].project
    /\ \E k \in DOMAIN plans : ~plans[k].comes_from_github

\* The flat repositories of the organizations given to create_plans.
FlatRepos ==
    {i \in DOMAIN GithubRepos : GithubRepos[i].org \in Range(github_organizations)}

\* C17: create_plans does not fail on a repository name; when it returns,
\* each flat repository whose branch lookup found a branch has exactly one
\* plan, under the organization that owns it, every flat plan is the plan of
\* such a repository, and fetch_branches was called exactly once for each
\* flat repository.
C17_OnePlanPerFlatRepository ==
    /\ pc \in DiscoveryPositions => raised.type # "KeyError"
    /\ pc = "ensure_text_matches_unique_branch" =>
           /\ \A i \in FlatRepos :
                  LET found == GithubFetchBranches(GithubRepos[i].org, GithubRepos[i].name,
                                                   github_branch_text)
                      of_repo == {k \in DOMAIN plans :
                                     /\ plans[k].comes_from_github
                                     /\ plans[k].project = GithubRepos[i].org
                                     /\ plans[k].slug = GithubRepos[i].name}
                  IN  /\ Cardinality(of_repo) = (IF found = <<>> THEN 0 ELSE 1)
                      /\ Cardinality({k \in DOMAIN calls :
                             calls[k] = Call("github", "fetch_branches", GithubRepos[i].org,
                                             GithubRepos[i].name, github_branch_text, 0)}) = 1
           /\ \A k \in DOMAIN plans :
                  plans[k].comes_from_github =>
                      \E i \in FlatRepos : /\ plans[k].project = GithubRepos[i].org
                                           /\ plans[k].slug = GithubRepos[i].name

\* The flat tasks submitted and not finished.
InFlight == Running(futures) \cup Pending(futures)

\* C18: during create_plans at most MaxWorkers fetch_branches calls of the
\* flat provider run at a time; the tasks in flight all belong to the
\* organization of the current iteration; and whenever the tasks of the next
\* organization can be submitted, every task submitted before has finished.
C18_PoolBoundAndBarrier ==
    /\ Cardinality(Running(futures)) <= MaxWorkers
    /\ \A f \in InFlight :
           /\ pc = "as_completed"
           /\ futures[f].organization = github_organizations[org_pos]
    /\ pc = "submit" => \A f \in DOMAIN futures : futures[f].state = "done"

\* Every thread of the pool runs a task of the second organization searched,
\* one more task is queued, and the tasks of the first have finished.
C18_Witness ==
    /\ Cardinality(Running(futures)) = MaxWorkers
    /\ Pending(futures) # {}
    /\ org_pos = 2
    /\ \E f \in DOMAIN futures : futures[f].organization = github_organizations[1]

\* The name the claim gives the flat lookup, from the plans found so far: the
\* hierarchical plans come first in the plan list.
FlatLookupName ==
    IF plans # <<>> /\ ~plans[1].comes_from_github
    THEN plans[1].branches[1].display_id
    ELSE branch_text

\* C19: every fetch_branches call on a flat repository asks for the
\* display_id of the first matched branch of the first hierarchical plan if
\* there is a hierarchical plan, and for the search text otherwise; and the
\* pull requests of each flat plan are the open pull requests of its
\* repository whose head ref is that name.  (Stated of create_plans, until it
\* has returned to merge().)
C19_FlatLookupName ==
    pc \in (DiscoveryPositions \ {"create_plans"})
              \cup {"ensure_text_matches_unique_branch"} =>
        /\ \A k \in DOMAIN calls :
               (calls[k].api = "github" /\ calls[k].op = "fetch_branches")
                   => calls[k].ref = FlatLookupName
        /\ \A k \in DOMAIN plans :
               plans[k].comes_from_github =>
                   plans[k].pull_requests =
                       SelectSeq(GithubFetchPullRequests(plans[k].project, plans[k].slug),
                                 LAMBDA pr : pr.head = FlatLookupName)

\* The text `a` matched only the branch `ab` in the first hierarchical
\* repository, and the flat repositories were asked for `ab`.
C19_Witness ==
    /\ pc = "ensure_text_matches_unique_branch"
    /\ branch_text = A
    /\ FlatLookupName = AB
    /\ \E k \in DOMAIN calls :
           calls[k].api = "github" /\ calls[k].op = "fetch_branches" /\ calls[k].ref = AB

\* The branches of a repository of either provider that have exactly the
\* searched name.
NamedExactly(provider, i) ==
    IF provider = "github"
    THEN {k \in DOMAIN github[i].branches : github[i].branches[k].name = branch_text}
    ELSE {k \in DOMAIN stash[i].branches : stash[i].branches[k].displayId = branch_text}

DiscoverPositions == DiscoveryPositions \cup {"found_branch", "to_confirm", "done"}

\* C22: obtain_branches_to_delete issues no delete_branch, decline or merge
\* call; when it has reported its plans, the lines are a header, one line per
\* plan in plan order with the provider name, the slug, the latest commit id
\* of the first branch and the has-PR marker exactly when the plan has a pull
\* request, and the prompt to repeat the command.
C22_DiscoverPhaseOnlyReports ==
    (command = "delete" /\ pc \in DiscoverPositions) =>
        /\ SideEffects(calls) = <<>>
        /\ pc = "to_confirm" =>
               /\ Len(lines) = Len(plans) + 2
               /\ lines[1].kind = "found_branch_in"
               /\ lines[1].names = <<branch_text>>
               /\ lines[Len(lines)].kind = "to_confirm_repeat"
               /\ \A k \in DOMAIN plans :
                      /\ lines[k + 1].kind = "found_in"
                      /\ lines[k + 1].slug = plans[k].slug
                      /\ lines[k + 1].names[1] =
                             <<IF plans[k].comes_from_github THEN "GitHub" ELSE "Stash">>
                      /\ lines[k + 1].names[2] = plans[k].branches[1].latest_commit
                      /\ (lines[k + 1].n = 1) <=> (plans[k].pull_requests # <<>>)

\* The plans of both providers were reported, one with a pull request and
\* one without.
C22_Witness ==
    /\ command = "delete"
    /\ pc = "to_confirm"
    /\ \E k \in DOMAIN plans : plans[k].comes_from_github /\ plans[k].pull_requests # <<>>
    /\ \E k \in DOMAIN plans : ~plans[k].comes_from_github /\ plans[k].pull_requests = <<>>

\* The decline and delete_branch calls the claim expects for a plan: the
\* pull request of the plan, if any, is declined and the branch deleted.
ExpectedDeleteCalls(plan) ==
    (IF Len(plan.pull_requests) > 0
     THEN <<Call(IF plan.comes_from_github THEN "github" ELSE "stash", "decline",
                 plan.project, plan.slug,
                 IF plan.comes_from_github THEN <<>> ELSE plan.pull_requests[1].version,
                 IF plan.comes_from_github THEN plan.pull_requests[1].number
                                           ELSE plan.pull_requests[1].id)>>
     ELSE <<>>)
    \o <<Call(IF plan.comes_from_github THEN "github" ELSE "stash", "delete_branch",
              plan.project, plan.slug, plan.branches[1].display_id, 0)>>

\* C23: delete_branches on a non-empty list yields one header and then, plan
\* by plan in list order, declines the pull request of the plan if it has one
\* (whatever its provider), deletes its branch and yields its line; on an
\* empty list it yields the single line 'No branches to delete.' and calls
\* no provider.
C23_ConfirmPhaseDeclinesAndDeletes ==
    LET through == IF pc = "deleted" THEN Len(branches_to_delete) ELSE idx - 1
    IN  (command = "delete" /\ pc \in {"delete_branches", "deleted"}
             /\ raised.type = "none") =>
            IF branches_to_delete = <<>>
            THEN /\ lines = <<NoBranchesToDeleteLine>>
                 /\ SideEffects(calls) = <<>>
                 /\ CallsOf("fetch_pull_request") = <<>>
            ELSE /\ lines = <<DeletingBranchesLine(branches_to_delete)>>
                            \o [k \in 1..through |-> NuclearBombLine(branches_to_delete[k])]
                 /\ SideEffects(calls) =
                        Flatten([k \in 1..through |->
                                    ExpectedDeleteCalls(branches_to_delete[k])])

\* C24: obtain_branches_to_delete leaves the caller's list alone while
\* create_plans runs; when create_plans has returned it appends the plans to
\* the list, in their order, and yields one line per appended plan; when
\* create_plans has raised CheckError it yields the lines of the error and
\* nothing else, ends without raising and leaves the list as it was.
C24_ListFilledWithPlans ==
    [][command = "delete" =>
          /\ pc \in DiscoveryPositions /\ raised.type = "none" =>
                 branches_to_delete' = branches_to_delete
          /\ pc = "found_branch" =>
                 /\ branches_to_delete' = branches_to_delete \o plans
                 /\ Len(lines') = Len(plans) + 2
                 /\ \A k \in DOMAIN plans :
                        /\ lines'[k + 1].slug = plans[k].slug
                        /\ branches_to_delete'[Len(branches_to_delete) + k] = plans[k]
          /\ pc \in DiscoveryPositions /\ raised.type = "CheckError" =>
                 /\ branches_to_delete' = branches_to_delete
                 /\ lines' = raised.lines
                 /\ raised'.type = "none"
                 /\ pc' = "done"]_vars

\* Plans of both providers were appended to a list that held a plan before.
C24_Witness ==
    /\ command = "delete"
    /\ pc = "to_confirm"
    /\ Len(branches_to_delete) = Len(plans) + 1
    /\ branches_to_delete[1] = EarlierPlan
    /\ \E k \in DOMAIN plans : plans[k].comes_from_github
    /\ \E k \in DOMAIN plans : ~plans[k].comes_from_github

\* The branch of exactly the name `name` exists in the repository of `plan`.
HasBranchNamed(plan, name) ==
    IF plan.comes_from_github
    THEN \E i \in DOMAIN github :
             /\ github[i].org = plan.project /\ github[i].name = plan.slug
             /\ \E k \in DOMAIN github[i].branches : github[i].branches[k].name = name
    ELSE \E k \in DOMAIN stash[StashRepoIndex(plan.project, plan.slug)].branches :
             stash[StashRepoIndex(plan.project, plan.slug)].branches[k].displayId = name

\* The positions after the commits of every plan were fetched and before a
\* pull request is merged.
CommitsFetched ==
    \/ pc \in {"ensure_no_conflicts", "yield_header"}
    \/ pc = "get_commits" /\ raised.type = "CheckError"

\* C28: the commits of a plan are compared with the plan's own target when it
\* has one; with the default target (the first target set among the plans)
\* when the plan has none and its repository has a branch of exactly the
\* default's name; with refs/heads/master otherwise.
C28_DefaultTargetOnlyWhereItExists ==
    CommitsFetched =>
        LET diffs == CallsOf("fetch_repo_commits")
            default_branch == DefaultBranch(plans)
        IN  /\ Len(diffs) = Len(plans)
            /\ \A k \in DOMAIN plans :
                   diffs[k].ref =
                       IF plans[k].to_branch # None THEN plans[k].to_branch
                       ELSE IF HasBranchNamed(plans[k], StripRefsHeads(default_branch))
                            THEN default_branch
                            ELSE RefsHeads(M)

\* The branch a plan is to lose is in its repository.
BranchPresent(plan) == HasBranchNamed(plan, plan.branches[1].display_id)

\* The delete_branch call of the plan at `idx` of a confirmed merge failed.
DeleteFailed ==
    /\ command = "merge" /\ confirm
    /\ pc = "delete_loop"
    /\ raised.type \in {"ProviderError", "CheckError"}

\* C29: when the delete_branch call of the N-th plan of a confirmed merge
\* fails, merge() ends with the exception; the pull request of every
\* (plan, commits) pair is merged; the branches of the plans before the N-th
\* are gone and those of the N-th and later plans are there; delete_branch
\* was called once for each of the first N plans and for no other; and the
\* report has neither the summary line nor the dry-run marker.
C29_DeleteFailureEndsRun ==
    DeleteFailed =>
        LET deletes == CallsOf("delete_branch")
        IN  /\ ~ENABLED Next
            /\ \A k \in DOMAIN plans_and_commits :
                   IsMerged(plans[plans_and_commits[k][1]])
            /\ \A k \in DOMAIN plans :
                   BranchPresent(plans[k]) <=> k >= idx
            /\ Len(deletes) = idx
            /\ \A k \in DOMAIN deletes : deletes[k] = DeleteCall(plans[k])
            /\ \A k \in DOMAIN lines :
                   lines[k].kind \notin {"branch_deleted_from", "dry_run"}

\* The deletion of the second plan failed after a pull request was merged
\* and the branch of the first plan was deleted.
C29_Witness ==
    /\ DeleteFailed
    /\ idx = 2
    /\ Len(plans) >= 2
    /\ plans_and_commits # <<>>
    /\ ~BranchPresent(plans[1])

\* The pull_request.merge() call of the pair at `idx` of a confirmed merge
\* failed.
MergeFailed ==
    /\ command = "merge" /\ confirm
    /\ pc = "merge_loop"
    /\ raised.type = "ProviderError"

\* The plan whose merge or delete_branch call failed.
FailedPlan == IF pc = "merge_loop" THEN plans_and_commits[idx][1] ELSE idx

SamePullRequest(p, q) ==
    /\ p.comes_from_github = q.comes_from_github
    /\ p.project = q.project /\ p.slug = q.slug

LastFetch == calls[1]

\* C25: GithubAPI.fetch_branches returns every branch of the repository for
\* the empty name; for a name the provider finds, the list of that one
\* branch, whose name is exactly the name asked; the empty list, and no
\* exception, when the provider answers 404; and raises the provider's error
\* for every other status.  Where the provider answers without such an
\* error, the result is that of GithubFetchBranches.
C25_FetchBranchesAnswers ==
    (command = "fetch_branches" /\ calls # <<>>) =>
        LET i == GithubRepoIndex(LastFetch.project, LastFetch.slug)
            name == LastFetch.ref
            status == LastFetch.pr
        IN  /\ (status = 200 /\ name = <<>>) =>
                   raised.type = "none" /\ branches_fetched = github[i].branches
            /\ (status = 200 /\ name # <<>>) =>
                   /\ raised.type = "none"
                   /\ Len(branches_fetched) = 1
                   /\ branches_fetched[1].name = name
                   /\ branches_fetched[1] \in Range(github[i].branches)
            /\ status = 404 => raised.type = "none" /\ branches_fetched = <<>>
            /\ status \notin {200, 404} => raised.type = "GithubException"
            /\ raised.type = "none" =>
                   branches_fetched = GithubFetchBranches(LastFetch.project, LastFetch.slug, name)

\* The provider refused the lookup of a branch that exists with a status
\* other than 404.
C25_Witness ==
    /\ command = "fetch_branches" /\ calls # <<>>
    /\ LastFetch.pr = 403
    /\ LastFetch.ref = AB
    /\ raised.type = "GithubException"

\* main() or the merge command has returned from its call of merge().
MergeReturned ==
    /\ bot.caller \in {"main", "merge"}
    /\ command = "merge"
    /\ pc = "returned"

\* What the caller had answered before it called merge().
AnsweredBefore == IF bot.caller = "merge" THEN <<<<WorkingLine>>>> ELSE <<>>

\* C26: when merge() ends without an exception its lines are the report and
\* main() returns 0; when it raises CheckError the lines of the error are the
\* report, nothing leaves the caller and main() returns 4; when it raises
\* anything else the exception leaves the caller, no report is given and
\* main() returns nothing.
C26_CallersCatchCheckErrorOnly ==
    MergeReturned =>
        /\ raised.type = "none" =>
               /\ bot.escaped = "none"
               /\ bot.answers = AnsweredBefore \o <<lines>>
               /\ bot.caller = "main" => bot.result = 0
        /\ raised.type = "CheckError" =>
               /\ bot.escaped = "none"
               /\ bot.answers = AnsweredBefore \o <<raised.lines>>
               /\ bot.caller = "main" => bot.result = 4
        /\ raised.type \notin {"none", "CheckError"} =>
               /\ bot.escaped = raised.type
               /\ bot.answers = AnsweredBefore
               /\ bot.result = -1

\* The AttributeError of the delete loop has left the merge command.
C26_Witness ==
    /\ MergeReturned
    /\ bot.caller = "merge"
    /\ raised.type = "AttributeError"
    /\ bot.escaped = "AttributeError"

\* The actor's settings or the configuration do not allow a command to run.
NotReady ==
    \/ ~bot.token
    \/ ~bot.github_token
    \/ bot.config \in {"unset", "empty"}

\* C27: while the actor's token or github_token is not set, or
\* STASH_PROJECTS is empty or unset, the merge command and the delete-branch
\* command call no provider; with both tokens set and STASH_PROJECTS empty
\* or unset their only answer is 'STASH_PROJECTS not configured'.
C27_NoProviderCallUntilReady ==
    (bot.caller \in {"merge", "delete-branch"} /\ NotReady) =>
        /\ calls = <<>>
        /\ (pc = "returned" /\ bot.token /\ bot.github_token) =>
               bot.answers = <<<<NotConfiguredLine>>>>

\* C21: when the delete-branch command has returned after
\* obtain_branches_to_delete ran to its end, no exception has left the
\* command, the lines are answered, and the actor's "delete-branches" setting
\* holds the plans found under the branch name, so that the next request for
\* the branch is answered by delete_branches over those plans.
C21_PlansKeptForConfirmation ==
    (bot.caller = "delete-branch" /\ command = "delete" /\ pc = "returned"
        /\ raised.type = "none") =>
        /\ bot.escaped = "none"
        /\ bot.answers = <<lines>>
        /\ ~NotInDeleteBranches(bot.delete_branches)
        /\ bot.delete_branches.plans = branches_to_delete

\* C31: from the first merge, decline or delete_branch call of merge() on,
\* every plan has exactly one matched branch and at most one pull request,
\* some plan has a pull request, and without force the plans with a pull
\* request all have the same to_branch.
C31_ValidatedPlansWhenActing ==
    (command = "merge" /\ SideEffects(calls) # <<>>) =>
        /\ \A k \in DOMAIN plans :
               /\ Len(plans[k].branches) = 1
               /\ Len(plans[k].pull_requests) <= 1
        /\ \E k \in DOMAIN plans : plans[k].pull_requests # <<>>
        /\ ~force => ~DivergentTargets

\* A merge was issued, without force, for plans of which two have a pull
\* request and a third has none.
C31_Witness ==
    /\ command = "merge"
    /\ SideEffects(calls) # <<>>
    /\ ~force
    /\ \E j, k \in DOMAIN plans :
           j # k /\ plans[j].pull_requests # <<>> /\ plans[k].pull_requests # <<>>
    /\ \E k \in DOMAIN plans : plans[k].pull_requests = <<>>

\* The source ref and the target ref of a pull request of a plan, the latter
\* in refs/heads/<name> form.
SourceRef(plan, pr) == IF plan.comes_from_github THEN pr.head ELSE pr.fromRef
TargetRef(plan, pr) == IF plan.comes_from_github THEN RefsHeads(pr.base) ELSE pr.toRef

\* C36: every plan create_plans has returned has at least one branch; the
\* source ref of each of its pull requests is the id of one of its branches;
\* its to_branch is set exactly when it has a pull request, and is then the
\* target ref of its first pull request, starting with refs/heads/, for both
\* providers.
C36_PlansWellFormed ==
    (command = "merge" /\ pc \notin DiscoveryPositions) =>
        \A k \in DOMAIN plans :
            LET plan == plans[k]
            IN  /\ Len(plan.branches) >= 1
                /\ \A j \in DOMAIN plan.pull_requests :
                       \E b \in DOMAIN plan.branches :
                           plan.branches[b].id = SourceRef(plan, plan.pull_requests[j])
                /\ (plan.to_branch # None) <=> (plan.pull_requests # <<>>)
                /\ plan.pull_requests # <<>> =>
                       /\ plan.to_branch = TargetRef(plan, plan.pull_requests[1])
                       /\ Head(plan.to_branch) = RH

\* create_plans has returned a hierarchical plan with two pull requests, a
\* flat plan with one and a plan with none.
C36_Witness ==
    /\ command = "merge"
    /\ pc = "ensure_text_matches_unique_branch"
    /\ \E k \in DOMAIN plans :
           ~plans[k].comes_from_github /\ Len(plans[k].pull_requests) = 2
    /\ \E k \in DOMAIN plans :
           plans[k].comes_from_github /\ Len(plans[k].pull_requests) = 1
    /\ \E k \in DOMAIN plans : plans[k].pull_requests = <<>>

\* C37: in merge(), at ensure_pull_requests_target_same_branch every plan
\* with a pull request has exactly one; ensure_has_pull_request raises
\* nothing; the default target of
\* get_commits_about_to_be_merged_by_pull_requests is found (no
\* StopIteration); and each plan of a (plan, commits) pair, which is what
\* ensure_no_conflicts and the merge loop get, has exactly one pull request.
C37_AssertionsNeverFail ==
    command = "merge" =>
        /\ pc = "ensure_pull_requests_target_same_branch" =>
               \A k \in DOMAIN plans : Len(plans[k].pull_requests) <= 1
        /\ pc = "ensure_has_pull_request" => raised.type = "none"
        /\ pc = "get_commits" =>
               /\ DefaultBranch(plans) # None
               /\ raised.type # "StopIteration"
        /\ \A k \in DOMAIN plans_and_commits :
               Len(plans[plans_and_commits[k][1]].pull_requests) = 1

\* The merge loop runs over two pairs while a third plan has no pull request.
C37_Witness ==
    /\ command = "merge"
    /\ pc = "merge_loop"
    /\ Len(plans_and_commits) = 2
    /\ \E k \in DOMAIN plans : plans[k].pull_requests = <<>>

\* The plans that have a pull request and no (plan, commits) pair.
WithoutCommits ==
    {k \in DOMAIN plans :
        /\ plans[k].pull_requests # <<>>
        /\ \A j \in DOMAIN plans_and_commits : plans_and_commits[j][1] # k}

\* C38: in a confirmed merge that went through every step, the pull requests
\* merged are those of the (plan, commits) pairs; a plan with a pull request
\* and no commits has a 'no changes' line, its pull request is open, and its
\* branch is deleted.
C38_NoCommitsNoMerge ==
    (command = "merge" /\ confirm /\ pc = "done") =>
        /\ Len(CallsOf("merge")) = Len(plans_and_commits)
        /\ \A k \in WithoutCommits :
               /\ \E j \in DOMAIN lines :
                      lines[j].kind = "no_changes" /\ lines[j].slug = plans[k].slug
               /\ ~IsMerged(plans[k])
               /\ ~BranchPresent(plans[k])

\* C35: every delete_branch call of a confirmed merge names the branch whose
\* display name ensure_text_matches_unique_branch returned, the one of the
\* header 'Branch `X` merged into:'.
C35_OnlyHeaderBranchDeleted ==
    (command = "merge" /\ confirm) =>
        \A k \in DOMAIN calls :
            calls[k].op = "delete_branch" => StripRefsHeads(calls[k].ref) = from_branch

\* The yielded tasks of the flat half in the order of the iterations and,
\* within an iteration, of the repositories of the directory.
FlatYieldsInOrder(text) ==
    LET yields == FlatYields(text)
        n == Cardinality(yields)
        before(y, z) == y[1] < z[1] \/ (y[1] = z[1] /\ y[2] < z[2])
    IN  CHOOSE s \in [1..n -> yields] :
            \A j, k \in 1..n : j < k => before(s[j], s[k])

\* lines 227-301 with every flat task completing in the order of its
\* submission: the plans create_plans has when it reaches line 303.
CreatePlansInSubmissionOrder(text, exactly_branch_name) ==
    LET hierarchical == StashPlans(StashProjects, text, exactly_branch_name)
        flat_text == GithubBranchText(hierarchical, text)
        yields == FlatYieldsInOrder(flat_text)
    IN  hierarchical
        \o [k \in 1..Len(yields) |-> FlatYieldPlan(yields[k], flat_text)]

\* The plans create_plans returns when every flat task completes in the order
\* of its submission.
PlansInSubmissionOrder ==
    CreatePlansInSubmissionOrder(branch_text, ExactlyBranchName)

\* The outcome of the validation stages of merge() over the plans ps: the
\* stage that fails with the kind of its exception and the set of its lines,
\* or "passed" with the set of the (plan, commits) pairs the report is made of.
ValidationOutcome(ps) ==
    LET out(stage, type, ls, pairs) ==
            [stage |-> stage, type |-> type, lines |-> Range(ls), pairs |-> pairs]
        matches == EnsureTextMatchesUniqueBranchLines(ps, branch_text)
        from == ps[1].branches[1].display_id
        unique == EnsureUniquePullRequestsLines(ps, from)
        targets == IF ChecksTargets(force)
                   THEN EnsurePullRequestsTargetSameBranchLines(ps, from)
                   ELSE <<>>
        commits == GetCommitsLines(ps, from)
        result == GetCommitsResult(ps, from)
        pairs == {<<ps[result[k][1]], result[k][2]>> : k \in DOMAIN result}
        conflicts == EnsureNoConflictsLines([k \in DOMAIN result |-> ps[result[k][1]]], from)
    IN  IF matches # <<>>
        THEN out("ensure_text_matches_unique_branch", "CheckError", matches, {})
        ELSE IF unique # <<>>
        THEN out("ensure_unique_pull_requests", "CheckError", unique, {})
        ELSE IF EnsureHasPullRequestFails(ps)
        THEN out("ensure_has_pull_request", "CheckError",
                 <<Line("no_pull_request_open", "", <<>>, 0, NoLink)>>, {})
        ELSE IF targets # <<>>
        THEN out("ensure_pull_requests_target_same_branch", "CheckError", targets, {})
        ELSE IF FirstFailedDiff(ps, from) # 0
        THEN out("get_commits", "GithubException", <<>>, {})
        ELSE IF commits # <<>>
        THEN out("get_commits", "CheckError", commits, {})
        ELSE IF conflicts # <<>>
        THEN out("ensure_no_conflicts", "CheckError", conflicts, {})
        ELSE out("passed", "none", <<>>, pairs)

\* The validation of the run has ended, by an exception or by passing.
Validated ==
    /\ command = "merge"
    /\ pc \notin DiscoveryPositions
    /\ pc \in ValidationStages => raised.type # "none"

\* C34: for the same provider state, branch text, confirm and force, the
\* outcome of merge() is the same for every order in which the flat
\* listBranches tasks complete: the validation fails in the same stage with
\* the same set of lines, or passes with the same (plan, commits) pairs, as in
\* the run in which the tasks complete in the order of their submission.
C34_OutcomeIndependentOfCompletionOrder ==
    Validated =>
        LET expected == ValidationOutcome(PlansInSubmissionOrder)
        IN  IF pc \in ValidationStages
            THEN /\ expected.stage = pc
                 /\ expected.type = raised.type
                 /\ expected.lines = Range(raised.lines)
            ELSE /\ expected.stage = "passed"
                 /\ expected.pairs = {<<plans[plans_and_commits[k][1]], plans_and_commits[k][2]>> :
                                         k \in DOMAIN plans_and_commits}

(***************************************************************************)
(* StashBot.delete_branch served for several messages at once              *)
(***************************************************************************)
\* The bot runs each command on a thread of its pool, so the requests of
\* `requests` are served concurrently.  A request holds the actor and the
\* branch name of its message, its position (received, loaded, ran,
\* returned), the settings dict it loaded, the arm of line 805 it took, the
\* list `branches`, its lines, the provider calls it issued, the requests
\* that had returned when it loaded its settings, whether it was answered
\* and the exception that left it.  The actors are named so that the first
\* request is u1's.
MaxRequests == 2

BranchNames == {A, AB}

\* line 786: additional_settings={"delete-branches": ""}
EmptyStr == DeleteBranchesSetting("str", <<>>)

\* lines 766-775 and 836-844 after a token and a github_token were given:
\* the dict that was saved has these two keys only
TokensStored ==
    [token |-> TRUE, github_token |-> TRUE,
     delete_branches |-> DeleteBranchesSetting("absent", <<>>)]

Request(user, branch_to_delete) ==
    [user |-> user, branch_to_delete |-> branch_to_delete, at |-> "received",
     settings |-> NotStored, phase |-> "none", branches |-> <<>>, lines |-> <<>>,
     calls |-> <<>>, earlier |-> {}, answered |-> FALSE, escaped |-> "none"]

\* What the first repository of each provider holds while requests are served.
RequestProfilesStash ==
    {SP(<<>>, <<>>, Commits(0), TRUE, FALSE),
     SP(<<A, AB>>, <<>>, Commits(0), TRUE, FALSE),
     SP(<<A, AB>>, <<M>>, Commits(0), TRUE, FALSE)}

RequestProfilesGithub ==
    {SP(<<>>, <<>>, Commits(0), TRUE, FALSE),
     SP(<<A>>, <<M>>, Commits(0), TRUE, FALSE)}

RequestsInit ==
    /\ github_organizations = <<"OA">>
    /\ \E s1 \in RequestProfilesStash :
           stash = <<MkStashRepo(1, s1),
                     MkStashRepo(2, SP(<<>>, <<>>, Commits(0), TRUE, FALSE))>>
    /\ \E g1 \in RequestProfilesGithub :
           github = <<MkGithubRepo(1, g1),
                      MkGithubRepo(2, SP(<<>>, <<>>, Commits(0), TRUE, FALSE)),
                      MkGithubRepo(3, SP(<<>>, <<>>, Commits(0), TRUE, FALSE))>>
    /\ command = "delete"
    /\ bot = [NoBot EXCEPT !.caller = "delete-branch"]
    /\ \E u \in Users :
           user_settings \in {[v \in Users |-> TokensStored],
                              [v \in Users |-> IF v = u THEN TokensStored ELSE NotStored]}
    /\ requests \in [1..MaxRequests -> {Request(u, b) : u \in Users, b \in BranchNames}]
    /\ requests[1].user = "u1"
    /\ stash_projects = StashProjects
    /\ branches_to_delete = <<>>
    /\ branches_fetched = <<>>
    /\ branch_text = <<>>
    /\ confirm = FALSE
    /\ force = FALSE
    /\ pc = "command"
    /\ plans = <<>>
    /\ has_prs = FALSE
    /\ github_branch_text = <<>>
    /\ futures = <<>>
    /\ org_pos = 1
    /\ collected = {}
    /\ from_branch = <<>>
    /\ plans_and_commits = <<>>
    /\ idx = 1
    /\ shown = {}
    /\ lines = <<>>
    /\ raised = NoException
    /\ calls = <<>>

\* lines 737-745: the defaults, with the additional ones, updated by what is
\* stored under "user:<nick>"
LoadUserSettings(user, delete_branches) ==
    LET loaded == user_settings[user]
    IN  [token |-> loaded.token, github_token |-> loaded.github_token,
         delete_branches |-> IF loaded.delete_branches.type = "absent"
                             THEN delete_branches
                             ELSE loaded.delete_branches]

\* lines 781-803: the settings are loaded, the request is answered at once
\* when a token is missing, and the two API objects are made
RequestLoad(r) ==
    /\ requests[r].at = "received"
    /\ LET settings == LoadUserSettings(requests[r].user, EmptyStr)
           earlier == {q \in DOMAIN requests : requests[q].at = "returned"}
           refused(line) == [requests EXCEPT ![r].settings = settings,
                                             ![r].earlier = earlier,
                                             ![r].lines = <<line>>,
                                             ![r].answered = TRUE,
                                             ![r].at = "returned"]
       IN  IF ~settings.token
           THEN requests' = refused(NoTokenLine) /\ UNCHANGED calls
           ELSE IF ~settings.github_token
           THEN requests' = refused(NoGithubTokenLine) /\ UNCHANGED calls
           ELSE /\ requests' = [requests EXCEPT
                                   ![r].settings = settings,
                                   ![r].earlier = earlier,
                                   ![r].calls = GithubInitCalls(github_organizations),
                                   ![r].at = "loaded"]
                /\ calls' = calls \o GithubInitCalls(github_organizations)
    /\ UNCHANGED <<stash, github, command, bot, stash_projects,
                   branches_to_delete, branches_fetched, branch_text, confirm, force,
                   github_organizations, user_settings, pc,
                   plans, has_prs, github_branch_text, futures, org_pos, collected,
                   from_branch, plans_and_commits, idx, shown, lines, raised>>

\* What line 805 looks at: the setting as seen for one branch name.
SettingFor(setting, name) ==
    [type |-> setting.type,
     has_branch |-> name \in DOMAIN setting.entries,
     plans |-> IF name \in DOMAIN setting.entries THEN setting.entries[name] ELSE <<>>]

\* A discovery that also declines and deletes what it finds.
ObtainCallsDeleting(text, ps) ==
    StashDiscoveryCalls(StashProjects, text, TRUE)
    \o Flatten([k \in 1..Len(ps) |->
           <<Call(IF ps[k].comes_from_github THEN "github" ELSE "stash", "delete_branch",
                  ps[k].project, ps[k].slug, ps[k].branches[1].display_id, 0)>>])

\* lines 706-714: the provider calls of create_plans for a branch name, ps
\* being the plans it finds
ObtainCalls(text, ps) ==
    LET flat_text == GithubBranchText(StashPlans(StashProjects, text, TRUE), text)
        repos == Flatten([k \in 1..Len(github_organizations) |->
                             GithubFetchRepos(github_organizations[k])])
    IN  StashDiscoveryCalls(StashProjects, text, TRUE)
        \o [k \in 1..Len(github_organizations) |->
               Call("github", "fetch_repos", github_organizations[k], "", <<>>, 0)]
        \o [k \in 1..Len(repos) |->
               Call("github", "fetch_branches", GithubRepos[repos[k]].org,
                    GithubRepos[repos[k]].name, flat_text, 0)]
        \o Flatten([k \in 1..Len(ps) |->
               IF ps[k].comes_from_github
               THEN <<Call("github", "fetch_pull_requests", ps[k].project, ps[k].slug,
                           <<>>, 0)>>
               ELSE <<>>])

\* lines 687-724: the lines of obtain_branches_to_delete for the plans found
ObtainLines(text, ps) ==
    IF ps = <<>>
    THEN CreatePlansError("no_branch", text, StashProjects, github_organizations).lines
    ELSE <<Line("found_branch_in", "", <<text>>, 0, NoLink)>>
         \o [k \in 1..Len(ps) |-> FoundInLine(ps[k])]
         \o <<Line("to_confirm_repeat", "", <<>>, 0, NoLink)>>

\* lines 663-681 for the plans ps, every call accepted: the calls
DeleteBranchesCalls(ps) ==
    Flatten([k \in 1..Len(ps) |->
        IF ps[k].comes_from_github
        THEN <<Call("github", "delete_branch", ps[k].project, ps[k].slug,
                    ps[k].branches[1].display_id, 0)>>
        ELSE DeclineCalls(ps[k])
             \o <<Call("stash", "delete_branch", ps[k].project, ps[k].slug,
                       ps[k].branches[1].display_id, 0)>>])

\* lines 660-684: the lines of delete_branches
DeleteBranchesLines(ps) ==
    IF ps = <<>>
    THEN <<NoBranchesToDeleteLine>>
    ELSE <<DeletingBranchesLine(ps)>> \o [k \in 1..Len(ps) |-> NuclearBombLine(ps[k])]

\* lines 663-681 for the plans ps, every call accepted: the providers after
RECURSIVE DeleteBranchesAll(_, _)
DeleteBranchesAll(providers, ps) ==
    IF ps = <<>>
    THEN providers
    ELSE LET plan == Head(ps)
             name == plan.branches[1].display_id
             after ==
                 IF plan.comes_from_github
                 THEN [providers EXCEPT
                          !.github[GithubRepoIndex(plan.project, plan.slug)].branches =
                              SelectSeq(@, LAMBDA b : b.name # name)]
                 ELSE [providers EXCEPT
                          !.stash = [SetDeclined(@, plan) EXCEPT
                              ![StashRepoIndex(plan.project, plan.slug)].branches =
                                  SelectSeq(@, LAMBDA b : b.displayId # name)]]
         IN  DeleteBranchesAll(after, Tail(ps))

\* lines 805-816 and 819-824: the arm of discovery, which fills `branches`
\* (the flat lookups taken in the order of their submission), or the arm of
\* confirmation, which runs delete_branches over the list kept under the
\* branch name; a provider may refuse a call of delete_branches, which ends
\* the request after the plans before it
RequestPhase(r) ==
    /\ requests[r].at = "loaded"
    /\ LET name == requests[r].branch_to_delete
           setting == SettingFor(requests[r].settings.delete_branches, name)
           found == CreatePlansInSubmissionOrder(name, TRUE)
       IN  IF NotInDeleteBranches(setting)
           THEN /\ requests' = [requests EXCEPT
                                   ![r].phase = "discover",
                                   ![r].branches = found,
                                   ![r].lines = ObtainLines(name, found),
                                   ![r].calls = @ \o ObtainCalls(name, found),
                                   ![r].at = "ran"]
                /\ calls' = calls \o ObtainCalls(name, found)
                /\ UNCHANGED <<stash, github>>
           ELSE \E n \in 0..Len(setting.plans) :
                    LET done == SubSeq(setting.plans, 1, n)
                        after == DeleteBranchesAll([stash |-> stash, github |-> github], done)
                    IN  /\ stash' = after.stash
                        /\ github' = after.github
                        /\ calls' = calls \o DeleteBranchesCalls(done)
                        /\ requests' = [requests EXCEPT
                               ![r].phase = "confirm",
                               ![r].lines = DeleteBranchesLines(done),
                               ![r].calls = @ \o DeleteBranchesCalls(done),
                               ![r].escaped = IF n < Len(setting.plans)
                                              THEN "ProviderError" ELSE "none",
                               ![r].at = IF n < Len(setting.plans)
                                         THEN "returned" ELSE "ran"]
    /\ UNCHANGED <<command, bot, stash_projects,
                   branches_to_delete, branches_fetched, branch_text, confirm, force,
                   github_organizations, user_settings, pc,
                   plans, has_prs, github_branch_text, futures, org_pos, collected,
                   from_branch, plans_and_commits, idx, shown, lines, raised>>

\* line 817: settings["delete-branches"][branch_to_delete] = branches; a str
\* does not support item assignment
StoreBranches(setting, name, branches) ==
    IF setting.type = "str"
    THEN [type |-> "TypeError", entries |-> <<>>]
    ELSE DeleteBranchesSetting("dict",
             [n \in DOMAIN setting.entries \cup {name} |->
                 IF n = name THEN branches ELSE setting.entries[n]])

\* lines 817-818 and 825: after discovery the list is put under the branch
\* name in the dict that was loaded and the dict is saved under the actor's
\* key; the lines are the answer
RequestStore(r) ==
    /\ requests[r].at = "ran"
    /\ LET user == requests[r].user
           stored == StoreBranches(requests[r].settings.delete_branches,
                                   requests[r].branch_to_delete, requests[r].branches)
       IN  IF requests[r].phase = "discover" /\ stored.type = "TypeError"
           THEN /\ requests' = [requests EXCEPT ![r].escaped = "TypeError",
                                                ![r].at = "returned"]
                /\ UNCHANGED user_settings
           ELSE /\ requests' = [requests EXCEPT
                                   ![r].settings.delete_branches =
                                       IF requests[r].phase = "discover" THEN stored ELSE @,
                                   ![r].answered = TRUE,
                                   ![r].at = "returned"]
                /\ user_settings' =
                       IF requests[r].phase = "discover"
                       THEN [user_settings EXCEPT
                                ![user] = [requests[r].settings EXCEPT
                                              !.delete_branches = stored]]
                       ELSE user_settings
    /\ UNCHANGED <<stash, github, command, bot, stash_projects,
                   branches_to_delete, branches_fetched, branch_text, confirm, force,
                   github_organizations, pc,
                   plans, has_prs, github_branch_text, futures, org_pos, collected,
                   from_branch, plans_and_commits, idx, shown, lines, raised, calls>>

RequestsNext ==
    \/ \E r \in DOMAIN requests : RequestLoad(r)
    \/ \E r \in DOMAIN requests : RequestPhase(r)
    \/ \E r \in DOMAIN requests : RequestStore(r)

SpecRequests == RequestsInit /\ [][RequestsNext]_vars

\* The request went through the arm of discovery and found the branch.
Discovered(r) ==
    /\ requests[r].phase = "discover"
    /\ requests[r].branches # <<>>

\* The list of the request is stored under its actor and its branch name.
Persisted(r) ==
    LET setting == user_settings[requests[r].user].delete_branches
    IN  /\ setting.type = "dict"
        /\ requests[r].branch_to_delete \in DOMAIN setting.entries
        /\ setting.entries[requests[r].branch_to_delete] = requests[r].branches

\* C32: when two discover requests have ended, those of different actors
\* have both their snapshots persisted, each under its own actor, and those
\* of one actor for two branch names have at least one of the two persisted
\* (both, unless the loads and saves interleaved into a lost update).
C32_SnapshotsPersistedPerActor ==
    \A r, q \in DOMAIN requests :
        (/\ r # q
         /\ requests[r].at = "returned" /\ Discovered(r)
         /\ requests[q].at = "returned" /\ Discovered(q))
        => /\ requests[r].user # requests[q].user => Persisted(r) /\ Persisted(q)
           /\ (/\ requests[r].user = requests[q].user
               /\ requests[r].branch_to_delete # requests[q].branch_to_delete)
              => Persisted(r) \/ Persisted(q)

\* The provider calls that list repositories, branches or pull requests.
Listing == {"fetch_repos", "fetch_branches", "fetch_pull_requests"}

\* C33: a delete-branch request that follows a discover request of the same
\* actor for the same branch name runs the confirm phase: it issues no
\* listing call and acts on the plans that request found, and so does every
\* later one.
C33_LaterRequestsConfirm ==
    \A r \in DOMAIN requests :
        \A q \in requests[r].earlier :
            (/\ requests[q].user = requests[r].user
             /\ requests[q].branch_to_delete = requests[r].branch_to_delete
             /\ Discovered(q)
             /\ requests[r].phase # "none")
            => /\ requests[r].phase = "confirm"
               /\ \A k \in DOMAIN requests[r].calls : requests[r].calls[k].op \notin Listing
               /\ requests[r].at = "returned" /\ requests[r].escaped = "none"
                      => SideEffects(requests[r].calls)
                             = SideEffects(DeleteBranchesCalls(requests[q].branches))

\* C39: a delete-branch request issues delete_branch or decline only when a
\* request of the same actor for exactly the same branch name had completed
\* its discover phase before; a first request, a request for another name
\* and a request of another actor issue none.
C39_OnlyAfterOwnDiscovery ==
    \A r \in DOMAIN requests :
        SideEffects(requests[r].calls) # <<>> =>
            \E q \in requests[r].earlier :
                /\ requests[q].user = requests[r].user
                /\ requests[q].branch_to_delete = requests[r].branch_to_delete
                /\ requests[q].phase = "discover"
                /\ requests[q].answered

\* A request that found its branch has returned after the request of another
\* actor, or for another branch name, had found its own and returned, and it
\* has deleted and declined nothing.
C39_Witness ==
    \E r \in DOMAIN requests :
        \E q \in requests[r].earlier :
            /\ \/ requests[q].user # requests[r].user
               \/ requests[q].branch_to_delete # requests[r].branch_to_delete
            /\ Discovered(q)
            /\ Discovered(r)
            /\ requests[r].at = "returned"
            /\ SideEffects(requests[r].calls) = <<>>
            /\ \E k \in DOMAIN requests[r].calls : requests[r].calls[k].op \in Listing

====
